---- MODULE Spec2Model ----
(***************************************************************************)
(* P.A.W agent server: the agent registry (api.ts), the PuppeteerAgent     *)
(* lifecycle (agent.ts) and the snapshot persistence (utils.ts).           *)
(*                                                                         *)
(* A request handler runs until its next await; every await is a point     *)
(* where the handler is suspended, and its completion is one action.       *)
(* In Spec the requests are handled one at a time.                         *)
(***************************************************************************)
EXTENDS Integers, FiniteSets, Sequences, TLC

VARIABLES
    phase,      \* "loaded": loadAgentsFromFile has returned; "serving": app listens; "crashed"
    agents,     \* the keys of the registry `agents` (api.ts)
    heap,       \* the PuppeteerAgent objects, by the identifier they were registered under
    open,       \* per agent: the browser sessions it launched that are not closed
    file,       \* ./agents-data.json
    req,        \* the request handlers in flight
    served      \* requests answered since the process started that acted on an agent

vars == <<phase, agents, heap, open, file, req, served>>

----------------------------------------------------------------------------
(* Bounds *)

MaxIds == 2
MaxSessions == 2
MaxRequests == 2
MaxRows == 2        \* participant rows in the pane
MaxClip == 3        \* pieces of text on the clipboard

Ids == 1..MaxIds            \* the identifiers crypto.randomUUID() hands out
Sess == 1..MaxSessions      \* the browser sessions puppeteer.launch() hands out
Slots == {"r1", "r2"}       \* handlers that can be in flight

\* `agents` is a plain object: agents[id] is also defined for the keys it
\* inherits from Object.prototype ("constructor", "toString", ...), which are
\* no agents. PROTO stands for such a key in a request's :id
PROTO == MaxIds + 1
ProtoKeys == {PROTO}
RouteIds == Ids \cup ProtoKeys

----------------------------------------------------------------------------
(* Data *)

NULL == 0      \* no handle
PAGE == 1      \* the Page of browser.newPage()
UNDEF == "undefined"

Configs ==
    { [startUrl |-> "https://jitsi.3git.eu/room", headless |-> TRUE,
       scrapeData |-> TRUE, muteAudio |-> TRUE, id |-> UNDEF],
      [startUrl |-> "", headless |-> FALSE,
       scrapeData |-> FALSE, muteAudio |-> FALSE, id |-> "agent1"] }

StartupColdStartConfig ==
    [startUrl |-> "https://example.org", headless |-> FALSE,
     scrapeData |-> FALSE, muteAudio |-> TRUE, id |-> UNDEF]

ExecColdStartConfig ==
    [startUrl |-> "https://example.com", headless |-> FALSE,
     scrapeData |-> FALSE, muteAudio |-> TRUE, id |-> UNDEF]

\* a constructor that would leave the status stopped (not the program's)
NewAgentStopped(config) ==
    [config |-> config, status |-> "stopped", browser |-> NULL, page |-> NULL]

\* new PuppeteerAgent(config)
NewAgent(config) ==
    [config |-> config, status |-> "idle", browser |-> NULL, page |-> NULL]

NoAgents == [i \in {} |-> NewAgent(ExecColdStartConfig)]

----------------------------------------------------------------------------
(* JSON.stringify / JSON.parse of the snapshot document.                   *)
(* A text is "empty", "spaces" (whitespace only), "torn" (a document cut   *)
(* short: not JSON) or "json"; entries are <<id, fields>>, a field is      *)
(* <<key, type, lexeme>>. A key whose value is undefined is not written.   *)

BoolLexeme(b) == IF b THEN "true" ELSE "false"

\* an encoding that would drop startUrl (not the program's)
EncodeConfigNoUrl(c) ==
    { <<"headless", "bool", BoolLexeme(c.headless)>>,
      <<"scrapeData", "bool", BoolLexeme(c.scrapeData)>>,
      <<"muteAudio", "bool", BoolLexeme(c.muteAudio)>> }
    \cup (IF c.id = UNDEF THEN {} ELSE { <<"id", "string", c.id>> })

EncodeConfig(c) ==
    { <<"startUrl", "string", c.startUrl>>,
      <<"headless", "bool", BoolLexeme(c.headless)>>,
      <<"scrapeData", "bool", BoolLexeme(c.scrapeData)>>,
      <<"muteAudio", "bool", BoolLexeme(c.muteAudio)>> }
    \cup (IF c.id = UNDEF THEN {} ELSE { <<"id", "string", c.id>> })

JSONstringify(agentsToSave) ==
    [kind |-> "json",
     entries |-> { <<i, EncodeConfig(agentsToSave[i])>> : i \in DOMAIN agentsToSave }]

HasKey(fields, k) == \E t \in fields : t[1] = k

StringField(fields, k) ==
    IF HasKey(fields, k) THEN (CHOOSE t \in fields : t[1] = k)[3] ELSE UNDEF

BoolField(fields, k) ==
    HasKey(fields, k) /\ (CHOOSE t \in fields : t[1] = k)[3] = "true"

DecodeConfig(fields) ==
    [startUrl |-> StringField(fields, "startUrl"),
     headless |-> BoolField(fields, "headless"),
     scrapeData |-> BoolField(fields, "scrapeData"),
     muteAudio |-> BoolField(fields, "muteAudio"),
     id |-> StringField(fields, "id")]

DecodeEntries(entries) ==
    [i \in { e[1] : e \in entries } |->
        DecodeConfig((CHOOSE e \in entries : e[1] = i)[2])]

NoConfigs == [i \in {} |-> ExecColdStartConfig]

\* a parser that would keep the entries read before the text breaks off
\* (not the program's)
JSONparseLenient(text) ==
    IF text.kind \in {"json", "torn"}
    THEN [threw |-> FALSE, value |-> DecodeEntries(text.entries)]
    ELSE [threw |-> TRUE, value |-> NoConfigs]

\* JSON.parse(fileContent): a SyntaxError unless the whole text is a document
JSONparse(text) ==
    IF text.kind = "json"
    THEN [threw |-> FALSE, value |-> DecodeEntries(text.entries)]
    ELSE [threw |-> TRUE, value |-> NoConfigs]

\* String.prototype.trim
Trim(text) ==
    IF text.kind = "spaces" THEN [kind |-> "empty", entries |-> {}] ELSE text

EmptyText == [kind |-> "empty", entries |-> {}]
SpacesText == [kind |-> "spaces", entries |-> {}]
MissingFile == [exists |-> FALSE, text |-> EmptyText]

----------------------------------------------------------------------------
(* utils.ts: the snapshot *)

\* a load over the lenient parser (not the program's)
LoadTryLenient(f) ==
    IF ~f.exists THEN [threw |-> FALSE, loaded |-> NoAgents]
    ELSE IF Trim(f.text).kind = "empty" THEN [threw |-> FALSE, loaded |-> NoAgents]
    ELSE LET agentConfigs == JSONparseLenient(f.text)
         IN  IF agentConfigs.threw
             THEN [threw |-> TRUE, loaded |-> NoAgents]
             ELSE [threw |-> FALSE,
                   loaded |-> [i \in DOMAIN agentConfigs.value |->
                                  NewAgent(agentConfigs.value[i])]]

\* the try block of loadAgentsFromFile; threw: control left it by an exception
LoadTry(f) ==
    IF ~f.exists THEN [threw |-> FALSE, loaded |-> NoAgents]
    ELSE IF Trim(f.text).kind = "empty" THEN [threw |-> FALSE, loaded |-> NoAgents]
    ELSE LET agentConfigs == JSONparse(f.text)
         IN  IF agentConfigs.threw
             THEN [threw |-> TRUE, loaded |-> NoAgents]
             ELSE [threw |-> FALSE,
                   loaded |-> [i \in DOMAIN agentConfigs.value |->
                                  NewAgent(agentConfigs.value[i])]]

\* loadAgentsFromFile: the catch logs and falls through to `return loadedAgents`
loadAgentsFromFile(f) ==
    [threw |-> FALSE, loaded |-> LoadTry(f).loaded]

\* the text saveAgentsToFile hands to Bun.write: every registered agent's getConfig()
SnapshotText(keys, h) ==
    JSONstringify([i \in keys |-> h[i].config])

----------------------------------------------------------------------------
(* agent.ts: stop() and start(), from one await to the next.               *)
(* A step yields the agent object, where the handler is suspended next     *)
(* (pc), the call that stop() returns into (ctx) and, once the operation   *)
(* is over (pc = "done"), how it ended (res): the value it returned, or     *)
(* "threw" when its promise rejected.                                      *)

Suspended(o, pc, ctx) == [o |-> o, pc |-> pc, ctx |-> ctx, res |-> "none"]
Over(o, res) == [o |-> o, pc |-> "done", ctx |-> "none", res |-> res]

RECURSIVE StopCall(_, _)

\* stop() is over: threw says whether it rejected. ctx is its caller:
\*   "navCatch"    start(), the catch around page.goto (then `throw error`)
\*   "outerCatch"  start(), the outer catch (then `throw error`)
\*   "caller"      a caller of the agent: a route of api.ts, the menu of cli.ts
StopReturn(o, ctx, threw) ==
    CASE ctx = "navCatch" -> StopCall([o EXCEPT !.status = "error"], "outerCatch")
      [] ctx = "outerCatch" -> Over(o, "threw")
      [] ctx = "caller" -> Over(o, IF threw THEN "threw" ELSE "undefined")

\* stop(), the finally block up to `await this.browser.close()`
StopFinally(o, ctx) ==
    IF o.browser # NULL
    THEN Suspended(o, "browserClose", ctx)
    ELSE StopReturn([o EXCEPT !.status = "stopped"], ctx, FALSE)

\* stop(), from its entry up to `await this.page.close()`
StopCall(o, ctx) ==
    IF o.page # NULL
    THEN Suspended(o, "pageClose", ctx)
    ELSE StopFinally(o, ctx)

\* a stop() whose page-close failure would skip the session close (not the
\* program's)
PageClosedAbort(o, ctx, ok) ==
    IF ok THEN StopFinally([o EXCEPT !.page = NULL], ctx)
    ELSE StopReturn([o EXCEPT !.status = "stopped"], ctx, FALSE)

\* page.close() settled
PageClosed(o, ctx, ok) ==
    StopFinally(IF ok THEN [o EXCEPT !.page = NULL] ELSE o, ctx)

\* browser.close() settled; a rejection leaves the finally block at once
BrowserClosed(o, ctx, ok) ==
    IF ok
    THEN StopReturn([o EXCEPT !.browser = NULL, !.status = "stopped"], ctx, FALSE)
    ELSE StopReturn(o, ctx, TRUE)

\* an outer catch that would rethrow without the call of stop() (not the
\* program's)
StartCatchNoCleanup(o) ==
    Over([o EXCEPT !.status = "error"], "threw")

\* start(), the outer catch
StartCatch(o) ==
    StopCall([o EXCEPT !.status = "error"], "outerCatch")

\* a start() that would leave the status alone until the navigation is over
\* (not the program's)
StartCallKeepsStatus(o) ==
    Suspended(o, "launch", "none")

\* start(), from its entry up to `await puppeteer.launch()`
StartCall(o) ==
    Suspended([o EXCEPT !.status = "starting"], "launch", "none")

\* puppeteer.launch() settled with session b
Launched(o, ok, b) ==
    IF ok
    THEN Suspended([o EXCEPT !.browser = b], "overridePermissions", "none")
    ELSE StartCatch(o)

\* context.overridePermissions() settled; `this.browser.newPage()` is a
\* TypeError when the handle is null by then
PermissionsGranted(o, ok) ==
    IF ok /\ o.browser # NULL
    THEN Suspended(o, "newPage", "none")
    ELSE StartCatch(o)

\* this.browser.newPage() settled
PageOpened(o, ok) ==
    IF ok
    THEN Suspended([o EXCEPT !.page = PAGE], "goto", "none")
    ELSE StartCatch(o)

\* page.goto(startUrl) settled; `this.page.evaluate()` is a TypeError when the
\* handle is null by then
Navigated(o, ok) ==
    IF ok
    THEN IF o.config.scrapeData
         THEN IF o.page # NULL
              THEN Suspended([o EXCEPT !.status = "running"], "evaluate", "none")
              ELSE StartCatch([o EXCEPT !.status = "running"])
         ELSE Over([o EXCEPT !.status = "running"], "true")
    ELSE StopCall([o EXCEPT !.status = "error"], "navCatch")

\* page.evaluate() of the scrape settled
Scraped(o, ok) ==
    IF ok THEN Over(o, "true") ELSE StartCatch(o)

----------------------------------------------------------------------------
(* agent.ts: the routines that drive the page. Each is computed from the   *)
(* agent's page handle and from what the browser answers to its calls.     *)

\* what a routine hands back: kind is "null", "undefined", "list", "link",
\* "text", "bytes", "true", "false" or "threw" (the promise rejected)
Out(kind, items, text) == [kind |-> kind, items |-> items, text |-> text]
Returned(kind) == Out(kind, <<>>, <<>>)

\* _openParticipantsPane answers: the pane opens, the key press rejects, the
\* wait for the pane times out, or one of the two pane elements is missing
PaneOutcomes == {"opened", "pressFails", "timeout", "missing"}

\* _openParticipantsPane(): true only when the pane and its content are there
OpenParticipantsPane(page, pane) ==
    IF page = NULL THEN FALSE
    ELSE pane = "opened"

\* the rows of the participants pane: the name element's text (or no such
\* element) and whether the muted icons are in the row
NOELEMENT == "no element"
RowNames == {"Ann", NOELEMENT}
Icons == {"svg", NOELEMENT}
Rows == [name : RowNames, video : Icons, audio : Icons]

RECURSIVE SeqsUpTo(_, _)
SeqsUpTo(S, n) ==
    IF n = 0 THEN { <<>> }
    ELSE LET shorter == SeqsUpTo(S, n - 1)
         IN  shorter \cup { Append(q, x) : q \in shorter, x \in S }

\* listParticipants(), the entry built for one row
Participant(row) ==
    [name |-> IF row.name = NOELEMENT THEN "null" ELSE row.name,
     videoMuted |-> row.video # NOELEMENT,
     audioMuted |-> row.audio # NOELEMENT]

\* a listParticipants that would answer a pane without rows by an empty list
\* (not the program's)
ListParticipantsEmptyList(page, env) ==
    IF page = NULL THEN Returned("null")
    ELSE IF ~OpenParticipantsPane(page, env.pane) THEN Returned("null")
    ELSE IF env.query # "ok" THEN Returned("null")
    ELSE IF ~env.rowsOk THEN Returned("null")
    ELSE Out("list", [k \in 1..Len(env.rows) |-> Participant(env.rows[k])], <<>>)

\* listParticipants(). env.query: page.$$ answers or rejects; env.rows: the
\* rows it answers; env.rowsOk: no query inside a row rejects
ListParticipants(page, env) ==
    IF page = NULL THEN Returned("null")
    ELSE IF ~OpenParticipantsPane(page, env.pane) THEN Returned("null")
    ELSE IF env.query # "ok" THEN Returned("null")
    ELSE IF Len(env.rows) = 0 THEN Returned("null")
    ELSE IF ~env.rowsOk THEN Returned("null")
    ELSE Out("list", [k \in 1..Len(env.rows) |-> Participant(env.rows[k])], <<>>)

\* the clipboard, as pieces of text: "host" is a text that matches
\* https:\/\/jitsi.3git.eu\/ (it begins with the letters https), "alnum" a
\* run of letters and digits, "other" a text that begins with another
\* character and holds no match
Pieces == {"host", "alnum", "other"}

\* the end of the run of "alnum" pieces that starts at k
RECURSIVE RunEnd(_, _)
RunEnd(clip, k) ==
    IF k + 1 <= Len(clip) /\ clip[k + 1] = "alnum" THEN RunEnd(clip, k + 1) ELSE k

\* inviteLink.match(/https:\/\/jitsi.3git.eu\/[a-zA-Z0-9]+/): the leftmost
\* match, the run of letters and digits taken as far as it goes, into the
\* letters "https" of a host text that follows it; <<>> is null
Match(clip) ==
    LET starts == { k \in 1..Len(clip) :
                       /\ clip[k] = "host"
                       /\ k + 1 <= Len(clip) /\ clip[k + 1] = "alnum" }
    IN  IF starts = {} THEN <<>>
        ELSE LET k == CHOOSE x \in starts : \A y \in starts : x <= y
                 e == RunEnd(clip, k + 1)
             IN  SubSeq(clip, k, e) \o
                 (IF e + 1 <= Len(clip) /\ clip[e + 1] = "host"
                  THEN <<"https">> ELSE <<>>)

\* the calls of clickShareLinkButton after the pane is open, in their order;
\* env.fails names the first one that fails ("none": none does). A wait that
\* "Timeout"s rejects, one that is "Null" answers null
ShareCalls ==
    <<"inviteTimeout", "inviteNull", "inviteClick",
      "copyTimeout", "copyNull", "copyClick",
      "closeTimeout", "closeNull", "closeClick",
      "dialogHiddenTimeout", "clipboardRead", "mouseMove">>
ShareFailures == { ShareCalls[k] : k \in 1..Len(ShareCalls) } \cup {"none"}

\* a clickShareLinkButton that would hand back the whole clipboard (not the
\* program's)
ClickShareLinkButtonWholeClipboard(page, env) ==
    IF page = NULL THEN Returned("null")
    ELSE IF ~OpenParticipantsPane(page, env.pane) THEN Returned("null")
    ELSE IF env.fails # "none" THEN Returned("null")
    ELSE IF Match(env.clip) = <<>> THEN Returned("null")
    ELSE Out("link", <<>>, env.clip)

\* clickShareLinkButton(): every failure ends in `return null`, the catch
\* included
ClickShareLinkButton(page, env) ==
    IF page = NULL THEN Returned("null")
    ELSE IF ~OpenParticipantsPane(page, env.pane) THEN Returned("null")
    ELSE IF env.fails # "none" THEN Returned("null")
    ELSE IF Match(env.clip) = <<>> THEN Returned("null")
    ELSE Out("link", <<>>, Match(env.clip))

\* getMeetingDuration(). env.fails: "query" (page.$ rejects), "absent" (no
\* timer element), "evaluate" (reading its text rejects) or "none"
DurationFailures == {"query", "absent", "evaluate", "none"}
GetMeetingDuration(page, env) ==
    IF page = NULL THEN Returned("null")
    ELSE IF env.fails # "none" THEN Returned("null")
    ELSE Out("text", <<>>, <<"other">>)

\* getScreenshot(): `return this.page.screenshot()` hands the pending promise
\* out of the try block, so a failed capture rejects the caller's await; with
\* no page the function ends without a return statement
ScreenshotFailures == {"capture", "none"}
GetScreenshot(page, env) ==
    IF page = NULL THEN Returned("undefined")
    ELSE IF env.fails = "none" THEN Returned("bytes") ELSE Returned("threw")

\* the calls of coldStart on its temporary browser, in their order; env.fails
\* names the first one that fails ("title": the wait for the title times out)
ColdStartCalls == <<"launch", "newPage", "goto", "title", "close">>
ColdStartFailures == { ColdStartCalls[k] : k \in 1..Len(ColdStartCalls) } \cup {"none"}

\* a coldStart that would not wait for the title (not the program's)
ColdStartNoTitle(o, env) ==
    [o |-> o,
     out |-> Returned(IF env.fails \in {"none", "title"} THEN "true" ELSE "false"),
     leaked |-> env.fails \notin {"none", "launch", "title"}]

\* a coldStart that would mark the agent as start() does (not the program's)
ColdStartMarksAgent(o, env) ==
    [o |-> [o EXCEPT !.status = IF env.fails = "none" THEN "running" ELSE "error"],
     out |-> Returned(IF env.fails = "none" THEN "true" ELSE "false"),
     leaked |-> env.fails \notin {"none", "launch"}]

\* coldStart(): o is the agent it is called on. leaked: the temporary browser
\* was launched and coldStart is over without having closed it
ColdStart(o, env) ==
    [o |-> o,
     out |-> Returned(IF env.fails = "none" THEN "true" ELSE "false"),
     leaked |-> env.fails \notin {"none", "launch"}]

\* what the browser answers during one routine
NoEnv == [pane |-> "opened", query |-> "ok", rows |-> <<>>, rowsOk |-> TRUE,
          fails |-> "none", clip |-> <<>>]

ListEnvs ==
    { [NoEnv EXCEPT !.pane = p] : p \in PaneOutcomes }
    \cup { [NoEnv EXCEPT !.query = "throws"] }
    \cup { [NoEnv EXCEPT !.rows = r, !.rowsOk = b] :
              r \in SeqsUpTo(Rows, MaxRows), b \in BOOLEAN }

ShareEnvs ==
    { [NoEnv EXCEPT !.pane = p] : p \in PaneOutcomes }
    \cup { [NoEnv EXCEPT !.fails = f, !.clip = c] :
              f \in ShareFailures, c \in SeqsUpTo(Pieces, MaxClip) }

DurationEnvs == { [NoEnv EXCEPT !.fails = f] : f \in DurationFailures }
ScreenshotEnvs == { [NoEnv EXCEPT !.fails = f] : f \in ScreenshotFailures }
ColdStartEnvs == { [NoEnv EXCEPT !.fails = f] : f \in ColdStartFailures }

\* the routine a caller names, and the answers it can meet
Routines == {"list_participants", "share_link", "duration", "screenshot"}

RoutineEnvs(name) ==
    CASE name = "list_participants" -> ListEnvs
      [] name = "share_link" -> ShareEnvs
      [] name = "duration" -> DurationEnvs
      [] name = "screenshot" -> ScreenshotEnvs

Routine(name, page, env) ==
    CASE name = "list_participants" -> ListParticipants(page, env)
      [] name = "share_link" -> ClickShareLinkButton(page, env)
      [] name = "duration" -> GetMeetingDuration(page, env)
      [] name = "screenshot" -> GetScreenshot(page, env)

----------------------------------------------------------------------------
(* api.ts: the handlers *)

NoFrame ==
    [op |-> "none", arg |-> "none", id |-> NULL, pc |-> "none", ctx |-> "none",
     code |-> 0, wr |-> "none", doc |-> EmptyText, nav |-> FALSE, body |-> NULL,
     res |-> "none", env |-> NoEnv, out |-> Returned("none"), sess |-> NULL,
     launched |-> NULL, during |-> "none", calls |-> <<>>, site |-> "none",
     data |-> <<>>]

\* where a start() of agent i in flight is suspended ("none": none is)
StartAt(i) ==
    IF \E t \in Slots : req[t].op = "start" /\ req[t].id = i
    THEN req[CHOOSE t \in Slots : req[t].op = "start" /\ req[t].id = i].pc
    ELSE "none"

\* the frame of a request taken now; during: the await that a start() of the
\* same agent is suspended at
NewFrame(op, arg, i) ==
    [NoFrame EXCEPT !.op = op, !.arg = arg, !.id = i, !.during = StartAt(i)]

Answer(fr, code) == [fr EXCEPT !.pc = "done", !.ctx = "none", !.code = code]

Idle == \A s \in Slots : req[s].op = "none"

\* requests are taken one at a time, once the app listens
CanBegin == phase = "serving" /\ Idle /\ served < MaxRequests

\* the requests counted in `served`: those that reached an agent operation
Counted(fr) ==
    /\ fr.code \notin {400, 404}
    /\ \/ fr.op \in {"create", "start", "stop", "delete"} /\ fr.id \notin ProtoKeys
       \/ fr.op = "exec" /\ fr.arg = "cold_start"

Slot == CHOOSE s \in Slots : req[s].op = "none"

\* crypto.randomUUID(): an identifier nothing refers to
FreshIds ==
    { i \in Ids : /\ i \notin agents
                  /\ i \notin DOMAIN heap
                  /\ open[i] = {}
                  /\ \A s \in Slots : req[s].id # i /\ req[s].body # i }

\* the sessions puppeteer.launch() can hand out to agent i
FreeSess(i) == Sess \ (open[i] \cup {heap[i].browser})

\* the browser sessions open in all
RECURSIVE OpenCount(_)
OpenCount(S) ==
    IF S = {} THEN 0
    ELSE LET i == CHOOSE x \in S : TRUE
         IN  Cardinality(open[i]) + OpenCount(S \ {i})

Put(h, i, o) == [j \in DOMAIN h \cup {i} |-> IF j = i THEN o ELSE h[j]]

\* a write that would keep the entries of the previous snapshot (not the
\* program's)
BunWriteMerge(f, text, outcome) ==
    IF outcome = "ok"
    THEN [exists |-> TRUE,
          text |-> [kind |-> "json",
                    entries |-> text.entries \cup
                                (IF f.exists /\ f.text.kind = "json"
                                 THEN f.text.entries ELSE {})]]
    ELSE f

\* Bun.write(AGENTS_DATA_FILE, text): the file is replaced, or the write fails
BunWrite(f, text, outcome) ==
    IF outcome = "ok" THEN [exists |-> TRUE, text |-> text] ELSE f

\* a handler that would answer 500 on a failed write (not the program's)
RouteStatusAfterSaveStrict(op, wr) ==
    IF wr # "ok" THEN 500 ELSE IF op = "create" THEN 201 ELSE 200

\* saveAgentsToFile has returned (it catches the write error): create sets 201
RouteStatusAfterSave(op, wr) ==
    IF op = "create" THEN 201 ELSE 200

\* a start route without its catch, that would test the value of start() only
\* (not the program's)
RouteStatusNoCatch(op, res) ==
    CASE op = "cli" -> 0
      [] op = "start" -> IF res = "false" THEN 500 ELSE 200
      [] OTHER -> IF res = "threw" THEN 500 ELSE 200

\* a handler that would report a rejected agent call as a success (not the
\* program's)
RouteStatusAlwaysOk(op, res) ==
    IF op = "cli" THEN 0 ELSE 200

\* the status a route sets once the agent operation it awaited is over: the
\* start route answers 500 when start() threw or returned false, the other
\* routes when the call threw (their catch, or onError); cli.ts sets none
RouteStatus(op, res) ==
    CASE op = "cli" -> 0
      [] op = "start" -> IF res = "true" THEN 200 ELSE 500
      [] OTHER -> IF res = "threw" THEN 500 ELSE 200

\* the browser session that the call a handler is suspended at acts on:
\* `this.browser` as it is when the call is made (close(), newPage()), the
\* session of the context or of the page for the other calls
CalledOn(fr, r) ==
    IF r.pc \in {"browserClose", "overridePermissions", "newPage"}
    THEN r.o.browser
    ELSE fr.sess

\* a call on a session can succeed only while the session is open
CanSucceed(s) == req[s].sess \in open[req[s].id]

\* a step that would keep the status in one field shared by all the agents
\* (not the program's)
AdvanceSharedStatus(s, fr, r, nav) ==
    /\ heap' = [j \in DOMAIN heap |->
                 IF j = fr.id THEN r.o ELSE [heap[j] EXCEPT !.status = r.o.status]]
    /\ IF fr.op = "delete" /\ r.pc = "done" /\ r.res # "threw"
       THEN \* DELETE /agent/:id after stop(): delete agents[id]; saveAgentsToFile(agents)
            /\ agents' = agents \ {fr.id}
            /\ req' = [req EXCEPT ![s] =
                         [fr EXCEPT !.pc = "write", !.ctx = "none",
                                    !.doc = SnapshotText(agents \ {fr.id}, heap)]]
       ELSE /\ agents' = agents
            /\ req' = [req EXCEPT ![s] =
                         [fr EXCEPT !.pc = r.pc, !.ctx = r.ctx, !.res = r.res,
                                    !.code = IF r.pc = "done"
                                             THEN RouteStatus(fr.op, r.res)
                                             ELSE 0,
                                    !.nav = nav,
                                    !.sess = CalledOn(fr, r)]]

\* fr: the handler's frame, r: the step of agent req.id it has just made
Advance(s, fr, r, nav) ==
    /\ heap' = [heap EXCEPT ![fr.id] = r.o]
    /\ IF fr.op = "delete" /\ r.pc = "done" /\ r.res # "threw"
       THEN \* DELETE /agent/:id after stop(): delete agents[id]; saveAgentsToFile(agents)
            /\ agents' = agents \ {fr.id}
            /\ req' = [req EXCEPT ![s] =
                         [fr EXCEPT !.pc = "write", !.ctx = "none",
                                    !.doc = SnapshotText(agents \ {fr.id}, heap)]]
       ELSE /\ agents' = agents
            /\ req' = [req EXCEPT ![s] =
                         [fr EXCEPT !.pc = r.pc, !.ctx = r.ctx, !.res = r.res,
                                    !.code = IF r.pc = "done"
                                             THEN RouteStatus(fr.op, r.res)
                                             ELSE 0,
                                    !.nav = nav,
                                    !.sess = CalledOn(fr, r)]]

\* `if (!agents[id])`: the route answers 404
NotFound(op, arg, i) ==
    /\ i \notin agents
    /\ i \notin ProtoKeys
    /\ req' = [req EXCEPT ![Slot] = Answer(NewFrame(op, arg, i), 404)]
    /\ UNCHANGED <<phase, agents, heap, open, file, served>>

\* agents[id] is an inherited value: calling a method of PuppeteerAgent on it
\* is a TypeError, for the route's catch or for onError
Inherited(op, arg, i) ==
    /\ i \in ProtoKeys
    /\ req' = [req EXCEPT ![Slot] =
                 [Answer(NewFrame(op, arg, i), RouteStatus(op, "threw")) EXCEPT
                     !.res = "threw"]]
    /\ UNCHANGED <<phase, agents, heap, open, file, served>>

\* POST /agent/create
CreateHandler ==
    /\ \E config \in Configs, agentId \in FreshIds :
          /\ agents' = agents \cup {agentId}
          /\ heap' = Put(heap, agentId, NewAgent(config))
          /\ req' = [req EXCEPT ![Slot] =
                       [NewFrame("create", "none", agentId) EXCEPT
                           !.pc = "write",
                           !.doc = SnapshotText(agents \cup {agentId},
                                                Put(heap, agentId, NewAgent(config)))]]
    /\ UNCHANGED <<phase, open, file, served>>

CreateRoute == CanBegin /\ CreateHandler

\* Bun.write settled, in saveAgentsToFile called by create or delete
WriteSettled(s) ==
    /\ req[s].pc = "write"
    /\ \E outcome \in {"ok", "fail"} :
          /\ file' = BunWrite(file, req[s].doc, outcome)
          /\ LET wr == outcome
                 fr == req[s]
             IN  req' = [req EXCEPT ![s] =
                           [Answer(fr, RouteStatusAfterSave(fr.op, wr)) EXCEPT
                               !.wr = wr,
                               !.body = IF fr.op = "create" THEN fr.id ELSE NULL]]
    /\ UNCHANGED <<phase, agents, heap, open, served>>

\* POST /agent/:id/start
StartHandler ==
    /\ \E i \in RouteIds :
          \/ NotFound("start", "none", i)
          \/ Inherited("start", "none", i)
          \/ /\ i \in agents
             /\ FreeSess(i) # {}
             /\ OpenCount(Ids) < MaxSessions
             /\ Advance(Slot, NewFrame("start", "none", i), StartCall(heap[i]), FALSE)
             /\ UNCHANGED <<phase, open, file, served>>

StartRoute == CanBegin /\ StartHandler

LaunchSettled(s) ==
    /\ req[s].pc = "launch"
    /\ \E ok \in BOOLEAN :
          LET i == req[s].id
              b == IF FreeSess(i) = {} THEN NULL ELSE CHOOSE x \in FreeSess(i) : TRUE
          IN  /\ ok => FreeSess(i) # {}
              /\ Advance(s, [req[s] EXCEPT !.launched = IF ok THEN b ELSE NULL],
                         Launched(heap[i], ok, b), FALSE)
              /\ open' = IF ok THEN [open EXCEPT ![i] = @ \cup {b}] ELSE open
    /\ UNCHANGED <<phase, file, served>>

PermissionsSettled(s) ==
    /\ req[s].pc = "overridePermissions"
    /\ \E ok \in BOOLEAN :
          /\ ok => CanSucceed(s)
          /\ Advance(s, req[s], PermissionsGranted(heap[req[s].id], ok), FALSE)
    /\ UNCHANGED <<phase, open, file, served>>

NewPageSettled(s) ==
    /\ req[s].pc = "newPage"
    /\ \E ok \in BOOLEAN :
          /\ ok => CanSucceed(s)
          /\ Advance(s, req[s], PageOpened(heap[req[s].id], ok), FALSE)
    /\ UNCHANGED <<phase, open, file, served>>

GotoSettled(s) ==
    /\ req[s].pc = "goto"
    /\ \E ok \in BOOLEAN :
          /\ ok => CanSucceed(s)
          /\ Advance(s, req[s], Navigated(heap[req[s].id], ok), ~ok)
    /\ UNCHANGED <<phase, open, file, served>>

EvaluateSettled(s) ==
    /\ req[s].pc = "evaluate"
    /\ \E ok \in BOOLEAN :
          /\ ok => CanSucceed(s)
          /\ Advance(s, req[s], Scraped(heap[req[s].id], ok), req[s].nav)
    /\ UNCHANGED <<phase, open, file, served>>

\* POST /agent/:id/stop
StopHandler ==
    /\ \E i \in RouteIds :
          \/ NotFound("stop", "none", i)
          \/ Inherited("stop", "none", i)
          \/ /\ i \in agents
             /\ Advance(Slot, NewFrame("stop", "none", i),
                        StopCall(heap[i], "caller"), FALSE)
             /\ UNCHANGED <<phase, open, file, served>>

StopRoute == CanBegin /\ StopHandler

\* DELETE /agent/:id
DeleteHandler ==
    /\ \E i \in RouteIds :
          \/ NotFound("delete", "none", i)
          \/ Inherited("delete", "none", i)
          \/ /\ i \in agents
             /\ Advance(Slot, NewFrame("delete", "none", i),
                        StopCall(heap[i], "caller"), FALSE)
             /\ UNCHANGED <<phase, open, file, served>>

DeleteRoute == CanBegin /\ DeleteHandler

PageCloseSettled(s) ==
    /\ req[s].pc = "pageClose"
    /\ \E ok \in BOOLEAN :
          Advance(s, req[s], PageClosed(heap[req[s].id], req[s].ctx, ok), req[s].nav)
    /\ UNCHANGED <<phase, open, file, served>>

BrowserCloseSettled(s) ==
    /\ req[s].pc = "browserClose"
    /\ \E ok \in BOOLEAN :
          LET i == req[s].id
          IN  /\ Advance(s, req[s], BrowserClosed(heap[i], req[s].ctx, ok), req[s].nav)
              /\ open' = IF ok THEN [open EXCEPT ![i] = @ \ {req[s].sess}] ELSE open
    /\ UNCHANGED <<phase, file, served>>

ExecCodes == {"share_link", "list_participants", "cold_start", "unknown"}

\* POST /agent/:id/exec
ExecHandler ==
    /\ \E i \in RouteIds, code \in ExecCodes :
          \/ NotFound("exec", code, i)
          \/ /\ code \in {"share_link", "list_participants"}
             /\ Inherited("exec", code, i)
          \/ /\ i \in agents
             /\ code \in {"share_link", "list_participants"}
             /\ req' = [req EXCEPT ![Slot] =
                          [NewFrame("exec", code, i) EXCEPT !.pc = "interact"]]
             /\ UNCHANGED <<phase, agents, heap, open, file, served>>
          \/ /\ i \in agents \cup ProtoKeys
             /\ code = "cold_start"
             /\ OpenCount(Ids) < MaxSessions
             /\ \E agentId \in FreshIds :
                   /\ agents' = agents \cup {agentId}
                   /\ heap' = Put(heap, agentId, NewAgent(ExecColdStartConfig))
                   /\ req' = [req EXCEPT ![Slot] =
                                [NewFrame("exec", code, i) EXCEPT
                                    !.pc = "coldStart", !.body = agentId]]
             /\ UNCHANGED <<phase, open, file, served>>
          \/ /\ i \in agents \cup ProtoKeys
             /\ code = "unknown"
             /\ req' = [req EXCEPT ![Slot] = Answer(NewFrame("exec", code, i), 400)]
             /\ UNCHANGED <<phase, agents, heap, open, file, served>>

ExecRoute == CanBegin /\ ExecHandler

\* clickShareLinkButton() / listParticipants() is over; of its result the
\* route keeps `success: !!result` and hands the data on
InteractionSettled(s) ==
    /\ req[s].pc = "interact"
    /\ req[s].op = "exec"
    /\ \E env \in RoutineEnvs(req[s].arg) :
          LET res == Routine(req[s].arg, heap[req[s].id].page, env).kind
          IN  req' = [req EXCEPT ![s] =
                        [Answer(@, RouteStatus("exec", res)) EXCEPT !.res = res]]
    /\ UNCHANGED <<phase, agents, heap, open, file, served>>

\* coldStart() of the temporary agent agents[agentId] is over
ColdStartSettled(s) ==
    /\ req[s].pc = "coldStart"
    /\ req[s].op = "exec"
    /\ \E env \in ColdStartEnvs :
          LET agentId == req[s].body
              r == ColdStart(heap[agentId], env)
              b == CHOOSE x \in FreeSess(agentId) : TRUE
          IN  /\ heap' = [heap EXCEPT ![agentId] = r.o]
              /\ open' = IF r.leaked THEN [open EXCEPT ![agentId] = @ \cup {b}]
                                     ELSE open
              /\ req' = [req EXCEPT ![s] =
                            [Answer(@, RouteStatus("exec", r.out.kind)) EXCEPT
                                !.res = r.out.kind]]
    /\ UNCHANGED <<phase, agents, file, served>>

\* GET /agent/:id/status, /agent/:id/config, /agent/:id
ReadRoute ==
    /\ CanBegin
    /\ \E i \in RouteIds :
          \/ NotFound("read", "none", i)
          \/ Inherited("read", "none", i)
          \/ /\ i \in agents
             /\ req' = [req EXCEPT ![Slot] = Answer(NewFrame("read", "none", i), 200)]
             /\ UNCHANGED <<phase, agents, heap, open, file, served>>

\* GET /agents.list, /agents.status
ListRoute ==
    /\ CanBegin
    /\ req' = [req EXCEPT ![Slot] = Answer(NewFrame("list", "none", NULL), 200)]
    /\ UNCHANGED <<phase, agents, heap, open, file, served>>

\* GET /agent/:id/screenshot: `return await agents[id].getScreenshot()`
ScreenshotRoute ==
    /\ CanBegin
    /\ \E i \in RouteIds :
          \/ NotFound("screenshot", "none", i)
          \/ Inherited("screenshot", "none", i)
          \/ /\ i \in agents
             /\ req' = [req EXCEPT ![Slot] =
                          [NewFrame("screenshot", "none", i) EXCEPT
                              !.pc = "screenshot"]]
             /\ UNCHANGED <<phase, agents, heap, open, file, served>>

\* getScreenshot() is over; the route has no catch: a rejection goes to onError
ScreenshotSettled(s) ==
    /\ req[s].pc = "screenshot"
    /\ \E env \in ScreenshotEnvs :
          LET res == GetScreenshot(heap[req[s].id].page, env).kind
          IN  req' = [req EXCEPT ![s] =
                        [Answer(@, RouteStatus("screenshot", res)) EXCEPT !.res = res]]
    /\ UNCHANGED <<phase, agents, heap, open, file, served>>

\* the response is sent; objects no longer referred to are collected
Reply(s) ==
    /\ req[s].pc = "done"
    /\ req' = [req EXCEPT ![s] = NoFrame]
    /\ heap' = [i \in { j \in DOMAIN heap :
                          \/ j \in agents
                          \/ \E t \in Slots \ {s} :
                                req[t].id = j \/ req[t].body = j } |-> heap[i]]
    /\ served' = IF Counted(req[s]) THEN served + 1 ELSE served
    /\ UNCHANGED <<phase, agents, open, file>>

----------------------------------------------------------------------------
(* Start of the process *)

Docs == UNION { [S -> Configs] : S \in SUBSET Ids }

InitFiles ==
    { MissingFile,
      [exists |-> TRUE, text |-> EmptyText],
      [exists |-> TRUE, text |-> SpacesText] }
    \cup { [exists |-> TRUE,
            text |-> [kind |-> k, entries |-> JSONstringify(d).entries]] :
           k \in {"json", "torn"}, d \in Docs }

NoOpen == [i \in Ids |-> {}]
NoReq == [s \in Slots |-> NoFrame]

\* `let agents = await loadAgentsFromFile()`
Boot(f) ==
    LET r == loadAgentsFromFile(f)
    IN  [phase |-> IF r.threw THEN "crashed" ELSE "loaded",
         agents |-> DOMAIN r.loaded,
         heap |-> r.loaded]

Init ==
    /\ file \in InitFiles
    /\ phase = Boot(file).phase
    /\ agents = Boot(file).agents
    /\ heap = Boot(file).heap
    /\ open = NoOpen
    /\ req = NoReq
    /\ served = 0

\* the process ends (its handlers and browsers with it) and is started again
Restart ==
    /\ phase' = Boot(file).phase
    /\ agents' = Boot(file).agents
    /\ heap' = Boot(file).heap
    /\ open' = NoOpen
    /\ req' = NoReq
    /\ served' = 0
    /\ UNCHANGED file

\* --coldstart not given, or the cold start succeeded (`delete agents[agentId]`)
StartServing ==
    /\ phase = "loaded"
    /\ phase' = "serving"
    /\ UNCHANGED <<agents, heap, open, file, req, served>>

\* --coldstart given and coldStart() returned false: the temporary agent stays
StartupColdStartFailed ==
    /\ phase = "loaded"
    /\ \E agentId \in FreshIds, env \in ColdStartEnvs :
          LET r == ColdStart(NewAgent(StartupColdStartConfig), env)
              b == CHOOSE x \in Sess : TRUE
          IN  /\ r.out.kind = "false"
              /\ agents' = agents \cup {agentId}
              /\ heap' = Put(heap, agentId, r.o)
              /\ open' = IF r.leaked THEN [open EXCEPT ![agentId] = {b}] ELSE open
    /\ phase' = "serving"
    /\ UNCHANGED <<file, req, served>>

Next ==
    \/ Restart
    \/ StartServing
    \/ StartupColdStartFailed
    \/ CreateRoute
    \/ StartRoute
    \/ StopRoute
    \/ DeleteRoute
    \/ ExecRoute
    \/ ReadRoute
    \/ ListRoute
    \/ ScreenshotRoute
    \/ \E s \in Slots :
          \/ WriteSettled(s)
          \/ LaunchSettled(s)
          \/ PermissionsSettled(s)
          \/ NewPageSettled(s)
          \/ GotoSettled(s)
          \/ EvaluateSettled(s)
          \/ PageCloseSettled(s)
          \/ BrowserCloseSettled(s)
          \/ InteractionSettled(s)
          \/ ColdStartSettled(s)
          \/ ScreenshotSettled(s)
          \/ Reply(s)

Spec == Init /\ [][Next]_vars

----------------------------------------------------------------------------
(* cli.ts: the menu drives one agent, `agent`, by direct calls, one choice *)
(* at a time.                                                              *)

AGENT == 1     \* where `agent` of cli.ts is kept in heap

\* createNewAgent(): the id and the start URL are never empty
CliConfigs ==
    { [startUrl |-> "https://jitsi.3git.eu/test-paw-cli", headless |-> FALSE,
       scrapeData |-> sd, muteAudio |-> TRUE, id |-> "agent1"] : sd \in BOOLEAN }

\* agents-data.json as the CLI finds it: missing, or a snapshot of one agent
CliFiles ==
    { MissingFile }
    \cup { [exists |-> TRUE, text |-> JSONstringify([i \in {AGENT} |-> c])] :
             c \in { d \in Configs : d.startUrl # "" } }

\* the menu is shown: an agent has been created, no choice is being served
CliInit ==
    /\ phase = "cli"
    /\ agents = {AGENT}
    /\ \E config \in CliConfigs : heap = [i \in {AGENT} |-> NewAgent(config)]
    /\ open = NoOpen
    /\ file \in CliFiles
    /\ req = NoReq
    /\ served = 0

\* the menu of an active agent (agents = {}: `agent` is null)
CliCanChoose == phase = "cli" /\ Idle /\ agents = {AGENT}

CliStartAnyStatus ==
    /\ CliCanChoose
    /\ FreeSess(AGENT) # {}
    /\ OpenCount(Ids) < MaxSessions
    /\ Advance(Slot, NewFrame("cli", "start", AGENT), StartCall(heap[AGENT]), FALSE)
    /\ UNCHANGED <<phase, open, file, served>>

\* choice 1: start(), unless the agent is running or starting
CliStart ==
    /\ CliCanChoose
    /\ heap[AGENT].status \notin {"running", "starting"}
    /\ FreeSess(AGENT) # {}
    /\ OpenCount(Ids) < MaxSessions
    /\ Advance(Slot, NewFrame("cli", "start", AGENT), StartCall(heap[AGENT]), FALSE)
    /\ UNCHANGED <<phase, open, file, served>>

\* choice 2: stop(), unless the agent is stopped or idle
CliStop ==
    /\ CliCanChoose
    /\ heap[AGENT].status \notin {"stopped", "idle"}
    /\ Advance(Slot, NewFrame("cli", "stop", AGENT),
               StopCall(heap[AGENT], "caller"), FALSE)
    /\ UNCHANGED <<phase, open, file, served>>

\* choices 6 to 9: a routine on the page, offered when the status is running
CliRoutine ==
    /\ CliCanChoose
    /\ heap[AGENT].status = "running"
    /\ \E name \in Routines :
          \E env \in RoutineEnvs(name) :
             req' = [req EXCEPT ![Slot] =
                       [NewFrame("cli", name, AGENT) EXCEPT
                           !.pc = "interact", !.env = env]]
    /\ UNCHANGED <<phase, agents, heap, open, file, served>>

\* the routine is over
CliRoutineSettled(s) ==
    /\ req[s].pc = "interact"
    /\ req[s].op = "cli"
    /\ LET out == Routine(req[s].arg, heap[req[s].id].page, req[s].env)
       IN  req' = [req EXCEPT ![s] =
                     [Answer(@, RouteStatus("cli", out.kind)) EXCEPT
                         !.res = out.kind, !.out = out]]
    /\ UNCHANGED <<phase, agents, heap, open, file, served>>

\* choice 10: `(agent || new PuppeteerAgent(tempConfig)).coldStart()`,
\* whatever the agent's status
CliColdStart ==
    /\ CliCanChoose
    /\ FreeSess(AGENT) # {}
    /\ OpenCount(Ids) < MaxSessions
    /\ \E env \in ColdStartEnvs :
          req' = [req EXCEPT ![Slot] =
                    [NewFrame("cli", "cold_start", AGENT) EXCEPT
                        !.pc = "coldStart", !.env = env]]
    /\ UNCHANGED <<phase, agents, heap, open, file, served>>

\* coldStart() is over
CliColdStartSettled(s) ==
    /\ req[s].pc = "coldStart"
    /\ req[s].op = "cli"
    /\ LET i == req[s].id
           r == ColdStart(heap[i], req[s].env)
           b == CHOOSE x \in FreeSess(i) : TRUE
       IN  /\ heap' = [heap EXCEPT ![i] = r.o]
           /\ open' = IF r.leaked THEN [open EXCEPT ![i] = @ \cup {b}] ELSE open
           /\ req' = [req EXCEPT ![s] =
                         [Answer(@, RouteStatus("cli", r.out.kind)) EXCEPT
                             !.res = r.out.kind, !.out = r.out]]
    /\ UNCHANGED <<phase, agents, file, served>>

\* choices 11, 12 and 0 begin alike: `await agent.stop()` if the agent is
\* running or starting, nothing otherwise
CliStopFirst(choice) ==
    /\ CliCanChoose
    /\ IF heap[AGENT].status \in {"running", "starting"}
       THEN Advance(Slot, NewFrame("cli", choice, AGENT),
                    StopCall(heap[AGENT], "caller"), FALSE)
       ELSE /\ req' = [req EXCEPT ![Slot] =
                         [NewFrame("cli", choice, AGENT) EXCEPT
                             !.pc = "done", !.res = "skipped"]]
            /\ UNCHANGED <<agents, heap>>
    /\ UNCHANGED <<phase, open, file, served>>

\* choice 11: switch to an agent loaded from the file
CliSwitch == CliStopFirst("switch")

\* choice 12: create a new agent in place of the current one
CliCreate == CliStopFirst("create")

\* choice 0: exit
CliExit == CliStopFirst("exit")

\* loadAgent(): <<a>> for an agent a of the file, or <<>> for null (no file,
\* no agent in it, no selection made)
loadAgent(f) ==
    LET loadedAgents == loadAgentsFromFile(f).loaded
    IN  {<<>>} \cup { <<loadedAgents[i]>> : i \in DOMAIN loadedAgents }

\* `agent = a`, a being <<>> for null
CliAgentIs(a) ==
    IF a = <<>>
    THEN agents' = {} /\ heap' = NoAgents
    ELSE agents' = {AGENT} /\ heap' = [i \in {AGENT} |-> a[1]]

\* the call of a choice has returned without a rejection
CliOver(s, choice) ==
    /\ req[s].pc = "done"
    /\ req[s].op = "cli"
    /\ req[s].arg = choice
    /\ req[s].res # "threw"

\* choice 11, after the stop: `agent = await loadAgent()`
CliSwitched(s) ==
    /\ CliOver(s, "switch")
    /\ \E a \in loadAgent(file) : CliAgentIs(a)
    /\ req' = [req EXCEPT ![s] = NoFrame]
    /\ UNCHANGED <<phase, open, file, served>>

\* choice 12, after the stop: `agent = await createNewAgent()`
CliCreated(s) ==
    /\ CliOver(s, "create")
    /\ \E config \in CliConfigs : CliAgentIs(<<NewAgent(config)>>)
    /\ req' = [req EXCEPT ![s] = NoFrame]
    /\ UNCHANGED <<phase, open, file, served>>

\* choice 0, after the stop: mainLoop returns
CliExited(s) ==
    /\ CliOver(s, "exit")
    /\ phase' = "exited"
    /\ req' = [req EXCEPT ![s] = NoFrame]
    /\ UNCHANGED <<agents, heap, open, file, served>>

\* the menu without an agent: choice 1 creates one, choice 2 loads one,
\* choice 0 exits
CliNoAgent ==
    /\ phase = "cli" /\ Idle /\ agents = {}
    /\ \/ /\ \E config \in CliConfigs : CliAgentIs(<<NewAgent(config)>>)
          /\ UNCHANGED phase
       \/ /\ \E a \in loadAgent(file) : CliAgentIs(a)
          /\ UNCHANGED phase
       \/ /\ phase' = "exited"
          /\ UNCHANGED <<agents, heap>>
    /\ UNCHANGED <<open, file, req, served>>

\* back to the menu. Only start() is called inside a try block: a rejection
\* of another call leaves mainLoop for the final catch, which exits
CliReturn(s) ==
    /\ req[s].pc = "done"
    /\ req[s].op = "cli"
    /\ req[s].res = "threw" \/ req[s].arg \notin {"switch", "create", "exit"}
    /\ req' = [req EXCEPT ![s] = NoFrame]
    /\ phase' = IF req[s].res = "threw" /\ req[s].arg # "start"
                THEN "exited" ELSE phase
    /\ UNCHANGED <<agents, heap, open, file, served>>

CliNext ==
    \/ CliStart
    \/ CliStop
    \/ CliRoutine
    \/ CliColdStart
    \/ CliSwitch
    \/ CliCreate
    \/ CliExit
    \/ CliNoAgent
    \/ \E s \in Slots :
          \/ CliSwitched(s)
          \/ CliCreated(s)
          \/ CliExited(s)
          \/ LaunchSettled(s)
          \/ PermissionsSettled(s)
          \/ NewPageSettled(s)
          \/ GotoSettled(s)
          \/ EvaluateSettled(s)
          \/ PageCloseSettled(s)
          \/ BrowserCloseSettled(s)
          \/ CliRoutineSettled(s)
          \/ CliColdStartSettled(s)
          \/ CliReturn(s)

CliSpec == CliInit /\ [][CliNext]_vars

----------------------------------------------------------------------------
(* api.ts under concurrent requests: a handler is suspended at each of its  *)
(* awaits, and another request can be taken meanwhile.                      *)

\* an agent whose start() has returned true: it holds session 1 and its page
RunningAgent(config) ==
    [config |-> config, status |-> "running", browser |-> 1, page |-> PAGE]

\* the app serves a registry of idle and running agents, saved as it is
ConcInit ==
    /\ phase = "serving"
    /\ agents \in SUBSET Ids
    /\ heap \in [agents -> { NewAgent(c) : c \in Configs }
                            \cup { RunningAgent(c) : c \in Configs }]
    /\ open = [i \in Ids |-> IF i \in agents /\ heap[i].browser # NULL
                             THEN {heap[i].browser} ELSE {}]
    /\ file = [exists |-> TRUE, text |-> SnapshotText(agents, heap)]
    /\ req = NoReq
    /\ served = 0

InFlight == Cardinality({ s \in Slots : req[s].op # "none" })

\* a request is taken whenever a handler is free
CanBeginAlongside ==
    /\ phase = "serving"
    /\ \E s \in Slots : req[s].op = "none"
    /\ served + InFlight < MaxRequests

ConcCreate == CanBeginAlongside /\ CreateHandler
ConcStart == CanBeginAlongside /\ StartHandler
ConcStop == CanBeginAlongside /\ StopHandler
ConcDelete == CanBeginAlongside /\ DeleteHandler
ConcExec == CanBeginAlongside /\ ExecHandler

ConcNext ==
    \/ ConcCreate
    \/ ConcStart
    \/ ConcStop
    \/ ConcDelete
    \/ ConcExec
    \/ \E s \in Slots :
          \/ WriteSettled(s)
          \/ LaunchSettled(s)
          \/ PermissionsSettled(s)
          \/ NewPageSettled(s)
          \/ GotoSettled(s)
          \/ EvaluateSettled(s)
          \/ PageCloseSettled(s)
          \/ BrowserCloseSettled(s)
          \/ InteractionSettled(s)
          \/ ColdStartSettled(s)
          \/ Reply(s)

ConcSpec == ConcInit /\ [][ConcNext]_vars

----------------------------------------------------------------------------
(* Claims *)

Done(s) == req[s].pc = "done"
Live(o) == o.browser # NULL /\ o.page # NULL
Fresh(o) == o.status = "idle" /\ o.browser = NULL /\ o.page = NULL

\* the handler whose frame changes in a step, by its route
ActingOp(s) == IF req[s].op = "none" THEN req'[s].op ELSE req[s].op

\* C1: when start() has finished after a failed navigation, the agent's status
\* is error and its browser handle is null.
C1_NavFailureEndsInError ==
    \A s \in Slots :
        (req[s].op = "start" /\ Done(s) /\ req[s].nav)
            => /\ heap[req[s].id].status = "error"
               /\ heap[req[s].id].browser = NULL

\* C2: stop() never throws and always leaves the status stopped, whatever the
\* page close and the session close do (the stop route answers 500 only when
\* stop() rejected).
C2_StopNeverThrows ==
    \A s \in Slots :
        (req[s].op = "stop" /\ Done(s) /\ req[s].id \in agents)
            => /\ req[s].code = 200
               /\ heap[req[s].id].status = "stopped"

\* C3, at rest: when no operation is in flight, an agent in status starting
\* or running has a browser and a page handle, and an agent in any other
\* status has neither (the claim says so of every state; these are the states
\* where no start() or stop() is between two of its steps).
C3_LiveIffStartingOrRunning ==
    Idle => \A i \in DOMAIN heap :
                IF heap[i].status \in {"starting", "running"}
                THEN heap[i].browser # NULL /\ heap[i].page # NULL
                ELSE heap[i].browser = NULL /\ heap[i].page = NULL

\* C4: a restart that finds the snapshot of the current registry (N agents in
\* any statuses) loads exactly those N identifiers, each with the saved
\* config, status idle and no browser or page handle.
C4_SaveRestartLoad ==
    [][ (phase' = "loaded" /\ file.exists
           /\ file.text = SnapshotText(agents, heap))
        => /\ agents' = agents
           /\ DOMAIN heap' = agents
           /\ \A i \in agents :
                 /\ heap'[i].config = heap[i].config
                 /\ Fresh(heap'[i]) ]_vars

\* C4 witness: the snapshot on disk is that of a registry of two agents, one
\* of them running with a live session.
C4_Witness ==
    /\ Cardinality(agents) = 2
    /\ file.exists /\ file.text = SnapshotText(agents, heap)
    /\ \E i \in agents : heap[i].status = "running" /\ Live(heap[i])
    /\ \E i \in agents : heap[i].config.id # UNDEF

\* C5: once the app serves, only the create and delete routes change the set
\* of identifiers in the registry.
C5_OnlyCreateDeleteChangeKeys ==
    [][ (phase = "serving" /\ phase' = "serving" /\ agents' # agents)
        => \E s \in Slots :
              req'[s] # req[s] /\ ActingOp(s) \in {"create", "delete"} ]_vars

\* C6: requests one at a time: when a create or delete has completed and its
\* write succeeded, the snapshot maps exactly the registry's identifiers to
\* their configs.
C6_SnapshotMatchesRegistry ==
    \A s \in Slots :
        (Done(s) /\ req[s].op \in {"create", "delete"} /\ req[s].wr = "ok")
            => /\ file.exists
               /\ ~JSONparse(file.text).threw
               /\ DOMAIN JSONparse(file.text).value = agents
               /\ \A i \in agents :
                     JSONparse(file.text).value[i] = heap[i].config

\* C6 witness: a delete has completed, its write succeeded, an agent is left.
C6_Witness ==
    \E s \in Slots :
        /\ Done(s) /\ req[s].op = "delete" /\ req[s].wr = "ok"
        /\ agents # {}

\* C7: create inserts, under an identifier not in the registry, an idle agent
\* without handles, leaves the other entries and every browser session as
\* they are, and answers with that identifier.
C7_CreateInsertsIdleAgent ==
    [][ \A s \in Slots :
          /\ (req[s].op = "none" /\ req'[s].op = "create")
                => /\ req'[s].id \notin agents
                   /\ agents' = agents \cup {req'[s].id}
                   /\ Fresh(heap'[req'[s].id])
                   /\ heap'[req'[s].id].config \in Configs
                   /\ \A j \in agents : heap'[j] = heap[j]
                   /\ open' = open
          /\ (req[s].op = "create" /\ ~Done(s) /\ req'[s].pc = "done")
                => /\ req'[s].body = req[s].id
                   /\ req[s].id \in agents'
                   /\ Fresh(heap'[req[s].id])
                   /\ heap' = heap /\ agents' = agents /\ open' = open ]_vars

\* C7 witness: a create has answered while another agent of the registry runs.
C7_Witness ==
    \E s \in Slots :
        /\ Done(s) /\ req[s].op = "create" /\ req[s].body \in agents
        /\ \E j \in agents \ {req[s].id} : heap[j].status = "running"

\* C8: a delete of a registered identifier removes it and saves the registry,
\* whatever stop() did.
C8_DeleteAlwaysRemoves ==
    \A s \in Slots :
        (Done(s) /\ req[s].op = "delete" /\ req[s].id \in Ids /\ req[s].code # 404)
            => /\ req[s].id \notin agents
               /\ req[s].wr # "none"

\* C9: loading a missing, empty, whitespace-only or malformed file (a text that
\* JSON.parse rejects) does not throw and yields an empty registry.
C9_LoadOfBadFileIsEmpty ==
    /\ phase # "crashed"
    /\ (phase = "loaded"
          /\ (~file.exists \/ file.text.kind \in {"empty", "spaces", "torn"}))
       => agents = {} /\ DOMAIN heap = {}

\* C9 witness: the process has loaded a file cut short after some entries.
C9_Witness ==
    /\ phase = "loaded"
    /\ file.exists /\ file.text.kind = "torn" /\ file.text.entries # {}

\* C10: when the write of a create or delete fails, the request still
\* answers success and the mutation stays.
C10_WriteFailureKeepsMutation ==
    \A s \in Slots :
        (Done(s) /\ req[s].wr = "fail")
            => /\ req[s].op = "create"
                     => /\ req[s].code = 201
                        /\ req[s].body = req[s].id
                        /\ req[s].id \in agents
               /\ req[s].op = "delete"
                     => /\ req[s].code = 200
                        /\ req[s].id \notin agents

\* C10 witness: a delete whose write failed has answered; the file still lists
\* the identifier.
C10_Witness ==
    \E s \in Slots :
        /\ Done(s) /\ req[s].wr = "fail" /\ req[s].op = "delete"
        /\ file.exists /\ file.text.kind = "json"
        /\ req[s].id \in DOMAIN JSONparse(file.text).value

\* a choice of the menu that has been served
CliDone(s, choice) == Done(s) /\ req[s].op = "cli" /\ req[s].arg = choice

\* C11: no operation of the agent other than start() hands a failure of the
\* browser on to its caller: stop(), getScreenshot(), listParticipants(),
\* clickShareLinkButton(), getMeetingDuration() and coldStart() never reject.
C11_OnlyStartThrows ==
    \A s \in Slots :
        (Done(s) /\ req[s].op = "cli" /\ req[s].arg # "start")
            => req[s].res # "threw"

\* C12: start() ends by returning true or by throwing, never by returning
\* false; it returns true only when no step failed, and it throws only after
\* its outer catch has called stop(): the call is under way when start()
\* throws, or it has run to its end and left the agent stopped.
C12_StartCleansUpThenThrows ==
    [][ \A s \in Slots :
          (req[s].op = "start" /\ req[s].id \in Ids /\ ~Done(s) /\ req'[s].pc = "done")
             => /\ req'[s].res \in {"true", "threw"}
                /\ req'[s].res = "true"
                      => /\ req[s].pc \in {"goto", "evaluate"}
                         /\ ~req'[s].nav
                         /\ req'[s].code = 200
                /\ req'[s].res = "threw"
                      => /\ req'[s].code = 500
                         /\ \/ /\ req[s].pc \in {"pageClose", "browserClose"}
                               /\ req[s].ctx = "outerCatch"
                            \/ /\ heap'[req[s].id].status = "stopped"
                               /\ heap'[req[s].id].browser = NULL ]_vars

\* C12 witness: start() has thrown after a failure other than the navigation,
\* and the cleanup has left the agent stopped.
C12_Witness ==
    \E s \in Slots :
        /\ req[s].op = "start" /\ Done(s) /\ req[s].res = "threw" /\ ~req[s].nav
        /\ req[s].id \in agents
        /\ heap[req[s].id].status = "stopped"

\* C13: start() sets the status to starting before it launches the browser,
\* keeps it until the launch, the permission grant, the page and the
\* navigation have succeeded and only then sets running; when it has returned
\* true the status is running and both handles are non-null.
C13_StartingThenRunning ==
    [][ \A s \in Slots :
          /\ (req[s].op = "none" /\ req'[s].op = "start" /\ req'[s].pc # "done")
                => /\ req'[s].pc = "launch"
                   /\ heap'[req'[s].id].status = "starting"
                   /\ heap'[req'[s].id].browser = heap[req'[s].id].browser
                   /\ open' = open
          /\ (req[s].op = "start"
                /\ req[s].pc \in {"launch", "overridePermissions", "newPage", "goto"})
                => /\ heap[req[s].id].status = "starting"
                   /\ (req'[s].op = "start" /\ heap'[req[s].id].status = "running")
                         => /\ req[s].pc = "goto"
                            /\ Live(heap'[req[s].id])
          /\ (req'[s].op = "start" /\ req'[s].pc = "done" /\ req'[s].res = "true")
                => /\ heap'[req'[s].id].status = "running"
                   /\ Live(heap'[req'[s].id]) ]_vars

\* C13 witness: start() has returned true on an agent that scrapes on start.
C13_Witness ==
    \E s \in Slots :
        /\ req[s].op = "start" /\ Done(s) /\ req[s].res = "true"
        /\ heap[req[s].id].config.scrapeData
        /\ heap[req[s].id].status = "running"

\* the list built from the rows, entry k from row k
ListOf(rows, items) ==
    /\ Len(items) = Len(rows)
    /\ \A k \in 1..Len(rows) :
          /\ items[k].videoMuted \in BOOLEAN /\ items[k].audioMuted \in BOOLEAN
          /\ items[k].videoMuted = (rows[k].video # NOELEMENT)
          /\ items[k].audioMuted = (rows[k].audio # NOELEMENT)
          /\ items[k].name = IF rows[k].name = NOELEMENT THEN "null" ELSE rows[k].name

\* C14, as claimed: listParticipants() returns null when the pane fails to
\* open and otherwise a list with one entry per row found, in row order, each
\* with boolean videoMuted and audioMuted.
C14_NullOnlyWhenPaneFails ==
    \A s \in Slots :
        CliDone(s, "list_participants")
            => IF OpenParticipantsPane(heap[req[s].id].page, req[s].env.pane)
                  /\ req[s].env.query = "ok" /\ req[s].env.rowsOk
               THEN /\ req[s].out.kind = "list"
                    /\ ListOf(req[s].env.rows, req[s].out.items)
               ELSE req[s].out.kind = "null"

\* C14, amended: listParticipants() returns null when there is no page, when
\* the pane fails to open, when the query for the rows fails or finds no row,
\* or when a query inside a row fails; otherwise it returns a list with one
\* entry per row found, in row order, each with boolean videoMuted and
\* audioMuted.
C14_ListOrNull ==
    \A s \in Slots :
        CliDone(s, "list_participants")
            => IF /\ OpenParticipantsPane(heap[req[s].id].page, req[s].env.pane)
                  /\ req[s].env.query = "ok" /\ req[s].env.rowsOk
                  /\ Len(req[s].env.rows) > 0
               THEN /\ req[s].out.kind = "list"
                    /\ ListOf(req[s].env.rows, req[s].out.items)
               ELSE req[s].out = Returned("null")

\* C14 witness: a list of two different entries has been returned.
C14_Witness ==
    \E s \in Slots :
        /\ CliDone(s, "list_participants")
        /\ req[s].out.kind = "list"
        /\ Len(req[s].out.items) = 2
        /\ req[s].out.items[1] # req[s].out.items[2]

\* the calls of clickShareLinkButton whose failure leaves one of the three
\* controls not found: its own wait, or a click before it was looked for
ControlNotFound ==
    {"inviteTimeout", "inviteNull", "inviteClick",
     "copyTimeout", "copyNull", "copyClick", "closeTimeout", "closeNull"}

\* C15, as claimed: clickShareLinkButton() returns null if one of the three
\* controls is not found, and otherwise the part of the clipboard that matches
\* the invite-link pattern, or null if nothing matches (a clipboard that
\* cannot be read counts as matching nothing).
C15_NullOnlyWhenControlMissing ==
    \A s \in Slots :
        CliDone(s, "share_link")
            => IF \/ ~OpenParticipantsPane(heap[req[s].id].page, req[s].env.pane)
                  \/ req[s].env.fails \in ControlNotFound \cup {"clipboardRead"}
                  \/ Match(req[s].env.clip) = <<>>
               THEN req[s].out = Returned("null")
               ELSE req[s].out = Out("link", <<>>, Match(req[s].env.clip))

\* C15, amended: clickShareLinkButton() returns null if there is no page, if
\* the pane fails to open or if any call it makes on the page fails (a control
\* not found within its wait window, a click, the wait for the dialog to
\* disappear, the clipboard read, the mouse move); otherwise it returns the
\* part of the clipboard that matches the invite-link pattern, or null if
\* nothing matches.
C15_LinkOrNull ==
    \A s \in Slots :
        CliDone(s, "share_link")
            => IF \/ ~OpenParticipantsPane(heap[req[s].id].page, req[s].env.pane)
                  \/ req[s].env.fails # "none"
                  \/ Match(req[s].env.clip) = <<>>
               THEN req[s].out = Returned("null")
               ELSE /\ req[s].out = Out("link", <<>>, Match(req[s].env.clip))
                    /\ req[s].out.text[1] = "host"
                    /\ req[s].out.text[2] = "alnum"

\* C15 witness: a link has been returned that is a part of the clipboard only.
C15_Witness ==
    \E s \in Slots :
        /\ CliDone(s, "share_link")
        /\ req[s].out.kind = "link"
        /\ req[s].out.text # req[s].env.clip
        /\ req[s].env.clip[1] # "host"

\* C16: coldStart() never rejects; it returns true only when every call up to
\* the wait for the title has succeeded, and false when the launch, the page,
\* the navigation or the wait for the title fails.
C16_ColdStartTrueOnlyOnTitle ==
    \A s \in Slots :
        CliDone(s, "cold_start")
            => /\ req[s].res \in {"true", "false"}
               /\ req[s].out = Returned(req[s].res)
               /\ req[s].res = "true" => req[s].env.fails = "none"
               /\ req[s].env.fails \in {"launch", "newPage", "goto", "title"}
                     => req[s].res = "false"

\* C16 witness: coldStart() has returned false after the wait for the title
\* timed out.
C16_Witness ==
    \E s \in Slots :
        /\ CliDone(s, "cold_start")
        /\ req[s].env.fails = "title"
        /\ req[s].res = "false"

\* C17: no step of coldStart() changes the status, the browser handle, the
\* page handle or the config of the agent it is called on.
C17_ColdStartLeavesAgent ==
    [][ \A s \in Slots :
          (req'[s].op = "cli" /\ req'[s].arg = "cold_start")
             => /\ heap' = heap
                /\ agents' = agents ]_vars

\* C17 witness: coldStart() has failed on a running agent, which still runs.
C17_Witness ==
    \E s \in Slots :
        /\ CliDone(s, "cold_start")
        /\ req[s].res = "false"
        /\ heap[req[s].id].status = "running" /\ Live(heap[req[s].id])

\* C18: getScreenshot() returns the image when there is a page and the capture
\* succeeds, and null in every other case.
C18_BytesOrNull ==
    \A s \in Slots :
        CliDone(s, "screenshot")
            => IF heap[req[s].id].page # NULL /\ req[s].env.fails = "none"
               THEN req[s].out.kind = "bytes"
               ELSE req[s].out.kind = "null"

\* the routes addressed to an agent
AgentRoutes == {"start", "stop", "exec", "read", "screenshot", "delete"}

\* C19: a request to a route /agent/:id with an identifier that is not in the
\* registry is answered 404 at once and changes neither the registry, nor an
\* agent, nor the snapshot.
C19_UnknownIdIs404 ==
    [][ \A s \in Slots :
          (req[s].op = "none" /\ req'[s].op \in AgentRoutes
             /\ req'[s].id \notin agents)
             => /\ req'[s].pc = "done"
                /\ req'[s].code = 404
                /\ UNCHANGED <<agents, heap, open, file>> ]_vars

\* C20: an exec request for a registered agent with a code that is not
\* share_link, list_participants or cold_start is answered 400 at once, calls
\* nothing on the agent and changes no state; an exec request during which a
\* call threw is answered 500.
C20_UnknownCodeIs400 ==
    [][ \A s \in Slots :
          /\ (req[s].op = "none" /\ req'[s].op = "exec"
                /\ req'[s].arg \notin {"share_link", "list_participants", "cold_start"}
                /\ req'[s].id \in agents)
                => /\ req'[s].pc = "done"
                   /\ req'[s].code = 400
                   /\ req'[s].res = "none"
                   /\ UNCHANGED <<agents, heap, open, file>>
          /\ (req'[s].op = "exec" /\ req'[s].pc = "done" /\ req'[s].res = "threw")
                => req'[s].code = 500 ]_vars

\* C20 witness: an exec request with an unknown code has been answered 400
\* while its agent runs.
C20_Witness ==
    \E s \in Slots :
        /\ req[s].op = "exec" /\ Done(s) /\ req[s].code = 400
        /\ req[s].id \in agents
        /\ heap[req[s].id].status = "running"

\* C21: for a registered agent the start route answers 500 whenever start()
\* threw and answers the success body (200) only when start() returned true;
\* it has no other answer.
C21_StartFailureIs500 ==
    \A s \in Slots :
        (req[s].op = "start" /\ Done(s) /\ req[s].id \in Ids /\ req[s].code # 404)
            => /\ req[s].code \in {200, 500}
               /\ req[s].res = "threw" => req[s].code = 500
               /\ req[s].code = 200 <=> req[s].res = "true"

\* C21 witness: the start route has answered 500 after start() threw on a
\* failed navigation.
C21_Witness ==
    \E s \in Slots :
        /\ req[s].op = "start" /\ Done(s) /\ req[s].id \in agents
        /\ req[s].res = "threw" /\ req[s].nav /\ req[s].code = 500

\* C22: every agent in the registry, whether create, the load or a cold start
\* put it there, has a config with a non-empty start URL.
C22_StartUrlNonEmpty ==
    \A i \in agents : heap[i].config.startUrl \notin {"", UNDEF}

\* C24: stop() attempts the page close, when there is a page, before the
\* session close, and attempts the session close whenever there is a session
\* handle: after a page close that succeeded, after one that failed, and when
\* there was no page.
C24_PageThenSession ==
    [][ \A s \in Slots :
          /\ (req'[s].pc = "browserClose" /\ req'[s] # req[s]
                /\ ~(req[s].pc = "pageClose" /\ req[s].ctx = req'[s].ctx))
                => heap'[req'[s].id].page = NULL
          /\ (req[s].pc = "pageClose" /\ req'[s].op # "none"
                /\ heap[req[s].id].browser # NULL)
                => /\ req'[s].pc = "browserClose"
                   /\ req'[s].ctx = req[s].ctx
          /\ (req[s].op = "none" /\ req'[s].op \in {"stop", "delete"}
                /\ req'[s].id \in agents /\ heap[req'[s].id].browser # NULL)
                => req'[s].pc = IF heap[req'[s].id].page # NULL
                                THEN "pageClose" ELSE "browserClose"
          /\ (req[s].pc = "browserClose" /\ req'[s].pc = "pageClose")
                => req'[s].ctx # req[s].ctx ]_vars

\* C24 witness: the page close of a stop request has failed and the session
\* close is under way.
C24_Witness ==
    \E s \in Slots :
        /\ req[s].op = "stop" /\ req[s].pc = "browserClose"
        /\ heap[req[s].id].page # NULL

\* C25: when stop() has returned, the page handle and the browser handle of
\* the agent are both null, whatever the page close did (so that a following
\* stop() has nothing to close).
C25_StoppedHasNoHandles ==
    \A s \in Slots :
        (req[s].op = "stop" /\ Done(s) /\ req[s].id \in agents
           /\ req[s].res = "undefined")
            => /\ heap[req[s].id].page = NULL
               /\ heap[req[s].id].browser = NULL

\* C26: requests one at a time: when none is in flight, every browser session
\* that an agent of a client has launched and that is not closed is the
\* agent's browser handle.
C26_OneSessionPerAgent ==
    Idle => \A i \in agents :
                heap[i].config \in Configs => open[i] \subseteq {heap[i].browser}

\* C27: coldStart() has closed the browser session it launched when it
\* returns, whether it returns true or false: the call leaves no session open
\* that was not open before it.
C27_ColdStartClosesSession ==
    [][ \A s \in Slots :
          (req[s].op = "cli" /\ req[s].arg = "cold_start" /\ ~Done(s)
             /\ req'[s].pc = "done")
             => open' = open ]_vars

\* the agent a handler acts on in a step: the one its request names
Acting(s) == IF req[s].op = "none" THEN req'[s].id ELSE req[s].id

\* C23: under concurrent requests, a step of a handler (of a start, a stop, a
\* delete, a routine or a cold start) changes the status, the browser handle,
\* the page handle and the config of no agent other than the one it acts on.
C23_AgentsIndependent ==
    [][ \A s \in Slots :
          req'[s] # req[s]
             => \A j \in (DOMAIN heap \cap DOMAIN heap') \ {Acting(s)} :
                   heap'[j] = heap[j] ]_vars

\* C23 witness: a start and a stop are in flight on two different agents, the
\* one suspended at its navigation, the other at its session close.
C23_Witness ==
    \E s, t \in Slots :
        /\ req[s].op = "start" /\ req[s].pc = "goto"
        /\ req[t].op = "stop" /\ req[t].pc = "browserClose"
        /\ req[s].id # req[t].id
        /\ {req[s].id, req[t].id} \subseteq agents

\* the awaits of start() before the agent runs
StartAwaits == {"launch", "overridePermissions", "newPage", "goto"}

\* C28: a stop request taken while a start() of the same agent was suspended
\* at its launch, its permission grant, its page open or its navigation: when
\* both have completed, the agent is not running with a null browser or page
\* handle, and it is not stopped while the session that start() launched is
\* still open.
C28_StopDuringStartAgrees ==
    \A s, t \in Slots :
        (/\ req[s].op = "start" /\ Done(s)
         /\ req[t].op = "stop" /\ Done(t)
         /\ req[t].id = req[s].id /\ req[s].id \in Ids
         /\ req[t].during \in StartAwaits)
            => LET o == heap[req[s].id]
               IN  /\ ~(o.status = "running" /\ (o.browser = NULL \/ o.page = NULL))
                   /\ o.status = "stopped" => req[s].launched \notin open[req[s].id]

\* C29: a delete request taken while a start request for the same agent was
\* in flight: when both have completed and the agent is out of the registry,
\* no browser session launched for it is open.
C29_DeletedAgentHasNoSession ==
    \A s, t \in Slots :
        (/\ req[s].op = "start" /\ Done(s)
         /\ req[t].op = "delete" /\ Done(t)
         /\ req[t].id = req[s].id /\ req[s].id \in Ids
         /\ req[t].during \notin {"none", "done"}
         /\ req[s].id \notin agents)
            => open[req[s].id] = {}

\* C30: two requests among create and delete handled concurrently: when both
\* have completed and both writes succeeded, in whatever order, the snapshot
\* holds exactly the identifiers of the registry.
C30_ConcurrentSavesAgree ==
    \A s, t \in Slots :
        (/\ s # t
         /\ Done(s) /\ req[s].op \in {"create", "delete"} /\ req[s].wr = "ok"
         /\ Done(t) /\ req[t].op \in {"create", "delete"} /\ req[t].wr = "ok")
            => /\ file.exists
               /\ ~JSONparse(file.text).threw
               /\ DOMAIN JSONparse(file.text).value = agents

\* C31: when the server starts serving, the registry holds exactly the agents
\* loaded from the snapshot, whether the startup cold start succeeded or
\* failed: the temporary agent of the cold start is not in the registry.
C31_TempAgentNeverStays ==
    [][ (phase = "loaded" /\ phase' = "serving") => agents' = agents ]_vars

-----------------------------------------------------------------------------
(* agent.ts: the pane helpers and the two routines that use them, one call
   on the page at a time. A frame of op "page" serves the routine `arg`;
   ctx is the function it is in, pc the call it is suspended at, calls the
   calls made so far with what each settled as, site the place the close
   helper was called from *)

OPEN == "_openParticipantsPane"
CLOSE == "_closeParticipantsPane"
LIST == "listParticipants"
SHARE == "clickShareLinkButton"

PageCall(fn, name, r) == [fn |-> fn, name |-> name, r |-> r]

\* what a call on the page settles as
Settles(name) ==
    CASE name \in {"$pane", "$content", "$closeButton"} -> {"found", "null", "threw"}
      [] name \in {"waitInvite", "waitCopy", "waitCloseDialog"} ->
            {"found", "null", "threw"}
      [] name = "$$rows" -> {"some", "none", "threw"}
      [] name = "clipboardRead" -> {"link", "other", "threw"}
      [] name = "viewport" -> {"some", "null"}
      [] name \in {"sleep500", "sleep250"} -> {"ok"}
      [] OTHER -> {"ok", "threw"}

\* the call the frame is suspended at has settled as r
Made(fr, r) == [fr EXCEPT !.calls = Append(@, PageCall(fr.ctx, fr.pc, r))]

At(fr, pc) == [fr EXCEPT !.pc = pc]

\* the routine returns
Result(fr, res) == [fr EXCEPT !.pc = "done", !.ctx = "none", !.res = res]

\* _openParticipantsPane() has returned to the routine
AfterOpen(fr, opened) ==
    IF ~opened THEN Result(fr, "null")
    ELSE [fr EXCEPT !.ctx = fr.arg,
                    !.pc = IF fr.arg = LIST THEN "$$rows" ELSE "waitInvite"]

\* `await this._openParticipantsPane()`
EnterOpen(fr, page) ==
    LET f == [fr EXCEPT !.calls = Append(@, PageCall(fr.ctx, OPEN, "called"))]
    IN  IF page = NULL THEN AfterOpen(f, FALSE)
        ELSE [f EXCEPT !.ctx = OPEN, !.pc = "press"]

\* _openParticipantsPane: both queries are made before either is looked at
OpenPaneThen(fr, r) ==
    LET f == Made(fr, r)
    IN  CASE r = "threw" -> AfterOpen(f, FALSE)
          [] fr.pc = "press" -> At(f, "waitPane")
          [] fr.pc = "waitPane" -> At(f, "$pane")
          [] fr.pc = "$pane" -> At(f, "$content")
          [] fr.pc = "$content" ->
                AfterOpen(f, fr.calls[Len(fr.calls)].r = "found" /\ r = "found")

\* _closeParticipantsPane() has returned to the routine
AfterClose(fr) ==
    CASE fr.site = "beforeRead" -> [fr EXCEPT !.ctx = SHARE, !.pc = "clipboardRead"]
      [] fr.site = "end" -> Result(fr, "list")
      [] OTHER -> Result(fr, "null")

\* `await this._closeParticipantsPane()` at a site of the routine
EnterClose(fr, page, site) ==
    LET f == [fr EXCEPT !.calls = Append(@, PageCall(fr.ctx, CLOSE, site)),
                        !.site = site]
    IN  IF page = NULL THEN AfterClose(f)
        ELSE [f EXCEPT !.ctx = CLOSE, !.pc = "press"]

\* the catch of _closeParticipantsPane
CloseCaught(fr) ==
    AfterClose([fr EXCEPT !.calls = Append(@, PageCall(CLOSE, "logger.error", "ok"))])

ClosePaneThenNoRecheck(fr, r) ==
    LET f == Made(fr, r)
    IN  CASE r = "threw" -> CloseCaught(f)
          [] fr.pc = "press" -> At(f, "sleep500")
          [] fr.pc = "sleep500" -> At(f, "$closeButton")
          [] fr.pc = "$closeButton" ->
                IF r = "found" THEN At(f, "click") ELSE At(f, "viewport")
          [] fr.pc = "click" -> At(f, "waitHidden")
          [] fr.pc = "waitHidden" -> AfterClose(f)
          [] fr.pc = "viewport" ->
                IF r = "some" THEN At(f, "mouseMove") ELSE AfterClose(f)
          [] fr.pc = "mouseMove" -> At(f, "sleep250")
          [] fr.pc = "sleep250" -> AfterClose(f)

\* _closeParticipantsPane: the toggle key, a pause, the pane queried again;
\* the close button if the pane is still there; the mouse if there is no button
ClosePaneThen(fr, r) ==
    LET f == Made(fr, r)
    IN  CASE r = "threw" -> CloseCaught(f)
          [] fr.pc = "press" -> At(f, "sleep500")
          [] fr.pc = "sleep500" -> At(f, "$pane")
          [] fr.pc = "$pane" ->
                IF r = "found" THEN At(f, "$closeButton") ELSE AfterClose(f)
          [] fr.pc = "$closeButton" ->
                IF r = "found" THEN At(f, "click") ELSE At(f, "viewport")
          [] fr.pc = "click" -> At(f, "waitHidden")
          [] fr.pc = "waitHidden" -> AfterClose(f)
          [] fr.pc = "viewport" ->
                IF r = "some" THEN At(f, "mouseMove") ELSE AfterClose(f)
          [] fr.pc = "mouseMove" -> At(f, "sleep250")
          [] fr.pc = "sleep250" -> AfterClose(f)

ListThenLeavesPaneOpen(fr, page, r) ==
    LET f == Made(fr, r)
    IN  CASE r = "threw" -> EnterClose(f, page, "catch")
          [] fr.pc = "$$rows" ->
                IF r = "none" THEN Result(f, "null") ELSE At(f, "rows")
          [] fr.pc = "rows" -> EnterClose(f, page, "end")

\* listParticipants after the pane has opened: the rows are queried, then read
\* (Promise.all over the rows), then the pane is closed
ListThen(fr, page, r) ==
    LET f == Made(fr, r)
    IN  CASE r = "threw" -> EnterClose(f, page, "catch")
          [] fr.pc = "$$rows" ->
                IF r = "none" THEN EnterClose(f, page, "zeroRows")
                ELSE At(f, "rows")
          [] fr.pc = "rows" -> EnterClose(f, page, "end")

\* the control a wait of clickShareLinkButton is for, and the call after it
Control ==
    [waitInvite |-> [site |-> "noInvite", then |-> "clickInvite"],
     waitCopy |-> [site |-> "noCopy", then |-> "clickCopy"],
     waitCloseDialog |-> [site |-> "noCloseDialog", then |-> "clickCloseDialog"]]

ShareThenReadsFirst(fr, page, r) ==
    LET f == Made(fr, r)
    IN  CASE r = "threw" -> EnterClose(f, page, "catch")
          [] fr.pc \in DOMAIN Control ->
                IF r = "null" THEN EnterClose(f, page, Control[fr.pc].site)
                ELSE At(f, Control[fr.pc].then)
          [] fr.pc = "clickInvite" -> At(f, "waitCopy")
          [] fr.pc = "clickCopy" -> At(f, "waitCloseDialog")
          [] fr.pc = "clickCloseDialog" -> At(f, "waitDialogHidden")
          [] fr.pc = "waitDialogHidden" -> At(f, "clipboardRead")
          [] fr.pc = "clipboardRead" -> EnterClose(f, page, "afterRead")
          [] fr.pc = "viewport" ->
                IF r = "some" THEN At(f, "mouseMove")
                ELSE Result(f, "null")
          [] fr.pc = "mouseMove" -> At(f, "sleep250")
          [] fr.pc = "sleep250" -> Result(f, "null")

\* the clipboard text that clickShareLinkButton read matches the link pattern
LinkRead(fr) ==
    \E k \in 1..Len(fr.calls) :
        fr.calls[k].name = "clipboardRead" /\ fr.calls[k].r = "link"

\* clickShareLinkButton after the pane has opened: a rejection of any call
\* lands in the catch, which closes the pane and returns null
ShareThen(fr, page, r) ==
    LET f == Made(fr, r)
        matched == IF LinkRead(f) THEN "link" ELSE "null"
    IN  CASE r = "threw" -> EnterClose(f, page, "catch")
          [] fr.pc \in DOMAIN Control ->
                IF r = "null" THEN EnterClose(f, page, Control[fr.pc].site)
                ELSE At(f, Control[fr.pc].then)
          [] fr.pc = "clickInvite" -> At(f, "waitCopy")
          [] fr.pc = "clickCopy" -> At(f, "waitCloseDialog")
          [] fr.pc = "clickCloseDialog" -> At(f, "waitDialogHidden")
          [] fr.pc = "waitDialogHidden" -> EnterClose(f, page, "beforeRead")
          [] fr.pc = "clipboardRead" -> At(f, "viewport")
          [] fr.pc = "viewport" ->
                IF r = "some" THEN At(f, "mouseMove") ELSE Result(f, matched)
          [] fr.pc = "mouseMove" -> At(f, "sleep250")
          [] fr.pc = "sleep250" -> Result(f, matched)

\* `if (!this.page) return null`, else the pane is opened first
BeginRoutine(fr, page) ==
    IF page = NULL THEN Result(fr, "null")
    ELSE EnterOpen([fr EXCEPT !.ctx = fr.arg], page)

\* an agent that never started, or one that runs
PageInit ==
    /\ phase = "page"
    /\ agents = {AGENT}
    /\ \E config \in CliConfigs :
          \/ heap = [i \in {AGENT} |-> NewAgent(config)] /\ open = NoOpen
          \/ /\ heap = [i \in {AGENT} |-> RunningAgent(config)]
             /\ open = [NoOpen EXCEPT ![AGENT] = {1}]
    /\ file = MissingFile
    /\ req = NoReq
    /\ served = 0

\* listParticipants() is called
ListParticipantsCalled ==
    /\ phase = "page" /\ Idle
    /\ req' = [req EXCEPT ![Slot] =
                 BeginRoutine(NewFrame("page", LIST, AGENT), heap[AGENT].page)]
    /\ UNCHANGED <<phase, agents, heap, open, file, served>>

\* clickShareLinkButton() is called
ClickShareLinkButtonCalled ==
    /\ phase = "page" /\ Idle
    /\ req' = [req EXCEPT ![Slot] =
                 BeginRoutine(NewFrame("page", SHARE, AGENT), heap[AGENT].page)]
    /\ UNCHANGED <<phase, agents, heap, open, file, served>>

SuspendedIn(s, fn) == req[s].op = "page" /\ req[s].ctx = fn /\ req[s].pc # "done"

\* a call of _openParticipantsPane settles
OpenPaneSettled(s) ==
    /\ SuspendedIn(s, OPEN)
    /\ \E r \in Settles(req[s].pc) :
          req' = [req EXCEPT ![s] = OpenPaneThen(@, r)]
    /\ UNCHANGED <<phase, agents, heap, open, file, served>>

\* a call of _closeParticipantsPane settles
ClosePaneSettled(s) ==
    /\ SuspendedIn(s, CLOSE)
    /\ \E r \in Settles(req[s].pc) :
          req' = [req EXCEPT ![s] = ClosePaneThen(@, r)]
    /\ UNCHANGED <<phase, agents, heap, open, file, served>>

\* a call of listParticipants settles
ListSettled(s) ==
    /\ SuspendedIn(s, LIST)
    /\ \E r \in Settles(req[s].pc) :
          req' = [req EXCEPT ![s] = ListThen(@, heap[req[s].id].page, r)]
    /\ UNCHANGED <<phase, agents, heap, open, file, served>>

\* a call of clickShareLinkButton settles
ShareSettled(s) ==
    /\ SuspendedIn(s, SHARE)
    /\ \E r \in Settles(req[s].pc) :
          req' = [req EXCEPT ![s] = ShareThen(@, heap[req[s].id].page, r)]
    /\ UNCHANGED <<phase, agents, heap, open, file, served>>

\* the caller has the routine's result
RoutineReturned(s) ==
    /\ req[s].op = "page"
    /\ req[s].pc = "done"
    /\ req' = [req EXCEPT ![s] = NoFrame]
    /\ UNCHANGED <<phase, agents, heap, open, file, served>>

PageNext ==
    \/ ListParticipantsCalled
    \/ ClickShareLinkButtonCalled
    \/ \E s \in Slots :
          \/ OpenPaneSettled(s)
          \/ ClosePaneSettled(s)
          \/ ListSettled(s)
          \/ ShareSettled(s)
          \/ RoutineReturned(s)

PageSpec == PageInit /\ [][PageNext]_vars

-----------------------------------------------------------------------------
(* the pane helpers: claims *)

PageFrames == { s \in Slots : req[s].op = "page" }

\* the k-th call of frame s is the one named `name` and made by `fn`
IsCall(s, k, fn, name) ==
    /\ k \in 1..Len(req[s].calls)
    /\ req[s].calls[k].fn = fn
    /\ req[s].calls[k].name = name

\* the k-th entry of frame s is a call of the close helper by the routine
ClosesAt(s, k) ==
    /\ k \in 1..Len(req[s].calls)
    /\ req[s].calls[k].name = CLOSE

\* C32: _closeParticipantsPane presses the toggle key, pauses and queries the
\* pane again; it queries the close button only after the pane was found still
\* present, clicks it only when found and then waits for the pane to be
\* hidden; it moves the mouse only after the close button was found absent;
\* a rejection of any of its calls is logged at once and control is back in
\* the routine, which goes on as after a close that succeeded.
C32_ClosePaneFallbackOrder ==
    \A s \in PageFrames :
        LET calls == req[s].calls
            Prev(k, name, r) ==
                /\ k > 1
                /\ calls[k - 1].fn = CLOSE
                /\ calls[k - 1].name = name
                /\ calls[k - 1].r = r
        IN  /\ \A k \in 1..Len(calls) :
                  calls[k].fn = CLOSE =>
                      CASE calls[k].name = "press" -> ClosesAt(s, k - 1)
                        [] calls[k].name = "sleep500" -> Prev(k, "press", "ok")
                        [] calls[k].name = "$pane" -> Prev(k, "sleep500", "ok")
                        [] calls[k].name = "$closeButton" -> Prev(k, "$pane", "found")
                        [] calls[k].name = "click" -> Prev(k, "$closeButton", "found")
                        [] calls[k].name = "waitHidden" -> Prev(k, "click", "ok")
                        [] calls[k].name = "viewport" -> Prev(k, "$closeButton", "null")
                        [] calls[k].name = "mouseMove" -> Prev(k, "viewport", "some")
                        [] calls[k].name = "sleep250" -> Prev(k, "mouseMove", "ok")
                        [] calls[k].name = "logger.error" ->
                              k > 1 /\ calls[k - 1].fn = CLOSE /\ calls[k - 1].r = "threw"
                        [] OTHER -> FALSE
            /\ \A k \in 1..Len(calls) :
                  (calls[k].fn = CLOSE /\ calls[k].r = "threw")
                      => IsCall(s, k + 1, CLOSE, "logger.error")
            /\ \A k \in 1..Len(calls) :
                  (IsCall(s, k, CLOSE, "logger.error") /\ k < Len(calls))
                      => calls[k + 1].fn # CLOSE
            /\ (Done(s) /\ req[s].arg = LIST)
                  => (req[s].res = "list"
                        <=> \E k \in 1..Len(calls) :
                               IsCall(s, k, LIST, "rows") /\ calls[k].r = "ok")
            /\ (req[s].arg = SHARE /\ req[s].site = "beforeRead"
                  /\ req[s].ctx = SHARE)
                  => \E k \in 1..Len(calls) :
                        /\ calls[k].fn = CLOSE
                        /\ \/ IsCall(s, k + 1, SHARE, "clipboardRead")
                           \/ k = Len(calls) /\ req[s].pc = "clipboardRead"

\* listParticipants() has returned the list although the click on the close
\* button was rejected inside _closeParticipantsPane
C32_Witness ==
    \E s \in PageFrames :
        /\ Done(s) /\ req[s].arg = LIST /\ req[s].res = "list"
        /\ \E k \in 1..Len(req[s].calls) :
              /\ IsCall(s, k, CLOSE, "click")
              /\ req[s].calls[k].r = "threw"


\* _openParticipantsPane() returned true to the routine of frame s
PaneOpened(s) ==
    \E k \in 2..Len(req[s].calls) :
        /\ IsCall(s, k, OPEN, "$content") /\ req[s].calls[k].r = "found"
        /\ IsCall(s, k - 1, OPEN, "$pane") /\ req[s].calls[k - 1].r = "found"

\* how many times the routine of frame s has called _closeParticipantsPane()
Closes(s) == Cardinality({ k \in 1..Len(req[s].calls) : ClosesAt(s, k) })

\* C33: listParticipants() never calls the close helper before the pane has
\* opened, never calls it twice, and when it has returned it has called it
\* exactly once if the pane had opened (zero rows, rows read, a rejection
\* while the rows were queried or read) and not at all if the page was absent
\* or the pane failed to open.
C33_ListClosesPaneOnce ==
    \A s \in PageFrames :
        req[s].arg = LIST =>
            /\ Closes(s) <= 1
            /\ ~PaneOpened(s) => Closes(s) = 0
            /\ Done(s) => Closes(s) = IF PaneOpened(s) THEN 1 ELSE 0

\* listParticipants() has returned after the reading of the rows was rejected
C33_Witness ==
    \E s \in PageFrames :
        /\ Done(s) /\ req[s].arg = LIST /\ PaneOpened(s)
        /\ \E k \in 1..Len(req[s].calls) :
              IsCall(s, k, LIST, "rows") /\ req[s].calls[k].r = "threw"
        /\ Closes(s) = 1


\* how many times the toggle key was pressed to close the pane in frame s
ClosePresses(s) ==
    Cardinality({ k \in 1..Len(req[s].calls) : IsCall(s, k, CLOSE, "press") })

\* C34: on every path of clickShareLinkButton(), a rejection of the clipboard
\* read or of the mouse move after the pane was closed included, the close
\* helper is called at most once and the toggle key is pressed at most once
\* to close the pane.
C34_ShareClosesPaneAtMostOnce ==
    \A s \in PageFrames :
        req[s].arg = SHARE => Closes(s) <= 1 /\ ClosePresses(s) <= 1


\* the step of clickShareLinkButton() a call belongs to: 1 open the pane,
\* 2 click invite, 3 click copy invitation, 4 click the dialog's close
\* control, 5 wait for it to disappear, 6 close the pane, 7 read the
\* clipboard, 8 move the mouse
StepOf(c) ==
    CASE c.fn = OPEN \/ c.name = OPEN -> 1
      [] c.fn = CLOSE \/ c.name = CLOSE -> 6
      [] c.name \in {"waitInvite", "clickInvite"} -> 2
      [] c.name \in {"waitCopy", "clickCopy"} -> 3
      [] c.name \in {"waitCloseDialog", "clickCloseDialog"} -> 4
      [] c.name = "waitDialogHidden" -> 5
      [] c.name = "clipboardRead" -> 7
      [] OTHER -> 8

\* the call made its step fail: it was rejected, or found no element (the
\* close helper catches its own rejections: closing the pane never fails)
Failed(c) ==
    /\ c.fn \in {OPEN, SHARE}
    /\ \/ c.r = "threw"
       \/ c.r = "null" /\ c.name # "viewport"

ShareFrames == { s \in PageFrames : req[s].arg = SHARE }

\* as long as no step has failed, the steps are taken in their order, and a
\* call that returned a link has taken all of them
StepsInOrder(s) ==
    LET calls == req[s].calls
    IN  /\ \A j \in 1..Len(calls) : \A k \in 1..(j - 1) :
              (\A i \in 1..(j - 1) : ~Failed(calls[i]))
                  => StepOf(calls[k]) <= StepOf(calls[j])
        /\ (Done(s) /\ req[s].res = "link")
              => /\ \A i \in 1..Len(calls) : ~Failed(calls[i])
                 /\ \A n \in 1..7 : \E k \in 1..Len(calls) : StepOf(calls[k]) = n

\* C35 as stated: clickShareLinkButton() takes its steps in the order open
\* pane, click invite, click copy invitation, click the dialog's close
\* control, wait for it to disappear, close the pane, read the clipboard; and
\* once a step has failed no call of another step is made.
C35_NoStepAfterFailure ==
    \A s \in ShareFrames :
        /\ StepsInOrder(s)
        /\ \A j \in 1..Len(req[s].calls) : \A k \in 1..(j - 1) :
              Failed(req[s].calls[k])
                  => StepOf(req[s].calls[j]) = StepOf(req[s].calls[k])

\* C35 amended: the same order; once a step has failed, the only call of
\* another step still made is the closing of the pane, and only when the
\* failure came after the pane had opened.
C35_OnlyClosesAfterFailure ==
    \A s \in ShareFrames :
        /\ StepsInOrder(s)
        /\ \A j \in 1..Len(req[s].calls) : \A k \in 1..(j - 1) :
              Failed(req[s].calls[k])
                  => \/ StepOf(req[s].calls[j]) = StepOf(req[s].calls[k])
                     \/ /\ StepOf(req[s].calls[j]) = 6
                        /\ StepOf(req[s].calls[k]) > 1

\* clickShareLinkButton() has returned null after the wait for the dialog to
\* disappear was rejected, and has closed the pane on its way out
C35_Witness ==
    \E s \in ShareFrames :
        /\ Done(s) /\ req[s].res = "null"
        /\ \E k \in 1..Len(req[s].calls) :
              /\ IsCall(s, k, SHARE, "waitDialogHidden")
              /\ req[s].calls[k].r = "threw"
              /\ ClosesAt(s, k + 1)

-----------------------------------------------------------------------------
(* cli.ts: claims about the menu *)

\* the menu choice whose call begins in this step, in slot s
CliBegins(s, choices) ==
    /\ req[s].op = "none"
    /\ req'[s].op = "cli"
    /\ req'[s].arg \in choices

\* C36: the CLI calls start() only when the agent is neither running nor
\* starting, stop() (choice 2, and the stop of choices 11, 12 and 0) only when
\* it is neither stopped nor idle, and getScreenshot, listParticipants,
\* clickShareLinkButton and getMeetingDuration only when it is running.
C36_FittingStatus ==
    [][ \A s \in Slots :
          /\ CliBegins(s, {"start"})
                => heap[AGENT].status \notin {"running", "starting"}
          /\ (CliBegins(s, {"stop", "switch", "create", "exit"})
                /\ req'[s].res # "skipped")
                => heap[AGENT].status \notin {"stopped", "idle"}
          /\ CliBegins(s, Routines) => heap[AGENT].status = "running" ]_vars

\* the agent ran when choice 11, 12 or 0 was made: stop() was called and has
\* stopped it
C36_Witness ==
    \E s \in Slots :
        /\ Done(s) /\ req[s].op = "cli"
        /\ req[s].arg \in {"switch", "create", "exit"}
        /\ req[s].res \notin {"skipped", "threw"}
        /\ heap[AGENT].status = "stopped"

\* C37: when the CLI replaces its agent (choices 11 and 12) or exits, the
\* agent it leaves holds no browser session and no page, whatever its status.
C37_NoAgentAbandonedLive ==
    [][ (/\ phase = "cli"
         /\ agents = {AGENT}
         /\ \/ phase' = "exited"
            \/ \E s \in Slots : /\ req[s].op = "cli"
                                /\ req[s].arg \in {"switch", "create"}
                                /\ req'[s].op = "none")
           => heap[AGENT].browser = NULL /\ heap[AGENT].page = NULL ]_vars

-----------------------------------------------------------------------------
(* utils.ts: checkLicense, and the gate of api.ts in front of the registry.
   The frame of op "license" is the top level of api.ts: arg is the value of
   --license, calls the outbound calls made, data the parsed answer as
   <<success, valid>> *)

BypassKey == "0deeffd4-2933-4065-a96e-1feb2bc8a320"

\* --license: not given (""), the bypass key, or another key
LicenseKeys == {"", BypassKey, "a-license-key"}

\* a field of the answer: a JSON boolean, a number, or not there
FieldValues == {"true", "false", "1", "absent"}

\* what `&&` takes for true
Truthy(v) == v \in {"true", "1"}

\* the answers that parse to an object, and the answer `null`
Answers == { <<success, valid>> : success, valid \in FieldValues } \cup { <<"null">> }

ValidSuccessOnly(data) ==
    /\ data # <<"null">>
    /\ Truthy(data[1])

\* `validateData.success && validateData.valid`
Valid(data) ==
    /\ data # <<"null">>
    /\ Truthy(data[1])
    /\ Truthy(data[2])

\* checkLicense returns
Checked(fr, res) == [fr EXCEPT !.pc = "done", !.res = res]

\* api.ts has parsed its arguments
LicenseInit ==
    /\ phase = "license"
    /\ agents = {}
    /\ heap = NoAgents
    /\ open = NoOpen
    /\ file \in InitFiles
    /\ \E key \in LicenseKeys :
          req = [NoReq EXCEPT !["r1"] =
                    [NoFrame EXCEPT !.op = "license", !.arg = key, !.pc = "args"]]
    /\ served = 0

AtTopLevel(s, pc) ==
    /\ phase = "license"
    /\ req[s].op = "license"
    /\ req[s].pc = pc

\* `if (!values.license) process.exit(1)`
NoLicenseGiven(s) ==
    /\ AtTopLevel(s, "args")
    /\ req[s].arg = ""
    /\ phase' = "exited"
    /\ UNCHANGED <<agents, heap, open, file, req, served>>

\* checkLicense(values.license) is called: the bypass key returns true at
\* once, any other key is sent to the validation endpoint
CheckLicenseCalled(s) ==
    /\ AtTopLevel(s, "args")
    /\ req[s].arg # ""
    /\ req' = [req EXCEPT ![s] =
                 IF req[s].arg = BypassKey THEN Checked(@, "true")
                 ELSE [@ EXCEPT !.ctx = "checkLicense", !.pc = "fetch"]]
    /\ UNCHANGED <<phase, agents, heap, open, file, served>>

\* fetch settled: a rejection is caught and false returned
FetchSettled(s) ==
    /\ AtTopLevel(s, "fetch")
    /\ \E r \in {"ok", "threw"} :
          req' = [req EXCEPT ![s] =
                    IF r = "ok" THEN At(Made(@, r), "json")
                    ELSE Checked(Made(@, r), "false")]
    /\ UNCHANGED <<phase, agents, heap, open, file, served>>

\* validateRes.json() settled: a rejection (the body is not JSON) and the
\* TypeError of reading a field of null are caught and false returned
JsonSettled(s) ==
    /\ AtTopLevel(s, "json")
    /\ \/ req' = [req EXCEPT ![s] = Checked(Made(@, "threw"), "false")]
       \/ \E data \in Answers :
             req' = [req EXCEPT ![s] =
                       [Checked(Made(@, "ok"),
                                IF Valid(data) THEN "true" ELSE "false")
                          EXCEPT !.data = data]]
    /\ UNCHANGED <<phase, agents, heap, open, file, served>>

\* `if (!await checkLicense(values.license)) process.exit(1)`, else
\* `let agents = await loadAgentsFromFile()`
LicenseChecked(s) ==
    /\ AtTopLevel(s, "done")
    /\ IF req[s].res = "true"
       THEN /\ phase' = Boot(file).phase
            /\ agents' = Boot(file).agents
            /\ heap' = Boot(file).heap
       ELSE /\ phase' = "exited"
            /\ UNCHANGED <<agents, heap>>
    /\ UNCHANGED <<open, file, req, served>>

LicenseNext ==
    \/ \E s \in Slots :
          \/ NoLicenseGiven(s)
          \/ CheckLicenseCalled(s)
          \/ FetchSettled(s)
          \/ JsonSettled(s)
          \/ LicenseChecked(s)
    \/ StartServing
    \/ StartupColdStartFailed

LicenseSpec == LicenseInit /\ [][LicenseNext]_vars

\* the outbound calls of frame s
Fetches(s) ==
    Cardinality({ k \in 1..Len(req[s].calls) :
                     IsCall(s, k, "checkLicense", "fetch") })

\* C38: checkLicense(key) never rejects; it returns true exactly when the key
\* is the bypass key or the answer was fetched and parsed and has both
\* success and valid set; it makes at most one outbound call and none for the
\* bypass key; the agents are loaded and the server serves only after it
\* returned true, and the process exits when it returned false or no key
\* was given.
C38_LicenseGate ==
    \A s \in Slots :
        req[s].op = "license" =>
            /\ Fetches(s) <= 1
            /\ req[s].arg = BypassKey => Fetches(s) = 0
            /\ Done(s) =>
                  /\ req[s].res \in {"true", "false"}
                  /\ req[s].res = "true"
                        <=> \/ req[s].arg = BypassKey
                            \/ /\ Len(req[s].calls) = 2
                               /\ \A k \in 1..2 : req[s].calls[k].r = "ok"
                               /\ Len(req[s].data) = 2
                               /\ \A k \in 1..2 : req[s].data[k] \in {"true", "1"}
            /\ phase \in {"loaded", "crashed", "serving"}
                  => Done(s) /\ req[s].res = "true"
            /\ (Done(s) /\ req[s].res = "false") => phase \in {"license", "exited"}
            /\ (req[s].arg = "" /\ phase # "license") => phase = "exited"

\* the server serves after the validation endpoint answered that the key,
\* not the bypass key, is valid
C38_Witness ==
    \E s \in Slots :
        /\ req[s].op = "license" /\ req[s].arg = "a-license-key"
        /\ Done(s) /\ req[s].res = "true" /\ Fetches(s) = 1
        /\ phase = "serving"

-----------------------------------------------------------------------------
(* shared/logger.ts: LogManager. The object is kept in heap at LOGGER:
   debugType, logger (the write stream, NULL once closed), written (the
   lines handed to the stream) and console (the lines handed to console.log
   or console.error). A line is its level and its message; the frame in r1
   names the method called last *)

LOGGER == 1

MaxLines == 3

Messages == {"m1", "m2"}

STREAM == 1     \* the WriteStream of createWriteStream

\* logLine(level, message), the time stamp and the application name left out
logLine(level, message) == [level |-> level, message |-> message]

\* logToConsole(message, level)
logToConsole(o, line, level) ==
    [o EXCEPT !.console =
        Append(@, [to |-> IF level \in {"ERROR", "FATAL"} THEN "error" ELSE "log",
                   line |-> line])]

\* log(level, message): to the stream if there is one; to the console
\* unless the level is DEBUG
log(o, level, message) ==
    LET line == logLine(level, message)
        w == IF o.logger # NULL THEN [o EXCEPT !.written = Append(@, line)] ELSE o
    IN  IF level # "DEBUG" THEN logToConsole(w, line, level) ELSE w

info(o, message) == log(o, "INFO", message)

\* debug(message)
debug(o, message) == IF o.debugType THEN log(o, "DEBUG", message) ELSE o

\* write(message)
write(o, message) == log(o, "INFO", message)

\* fatal(message)
fatal(o, message) == log(o, "FATAL", message)

\* closeFile()
closeFile(o) == [o EXCEPT !.logger = NULL]

\* new LogManager(logAppName, debugType): the stream is opened; in debug mode
\* the constructor logs one line
NewLogManager(debugType) ==
    LET o == [debugType |-> debugType, logger |-> STREAM,
              written |-> <<>>, console |-> <<>>]
    IN  IF debugType THEN info(o, "Debug Mode Enabled!") ELSE o

LogInit ==
    /\ phase = "logging"
    /\ agents = {}
    /\ \E debugType \in BOOLEAN :
          heap = [i \in {LOGGER} |-> NewLogManager(debugType)]
    /\ open = NoOpen
    /\ file = MissingFile
    /\ req = NoReq
    /\ served = 0

\* a method of the LogManager is called and returns the object as o
LogCalled(method, message, o) ==
    /\ phase = "logging"
    /\ Len(heap[LOGGER].written) < MaxLines
    /\ Len(heap[LOGGER].console) < MaxLines
    /\ heap' = [heap EXCEPT ![LOGGER] = o]
    /\ req' = [req EXCEPT !["r1"] =
                 [NoFrame EXCEPT !.op = "logger", !.arg = method,
                                 !.data = <<message>>]]
    /\ UNCHANGED <<phase, agents, open, file, served>>

InfoCalled == \E m \in Messages : LogCalled("info", m, info(heap[LOGGER], m))

DebugCalled == \E m \in Messages : LogCalled("debug", m, debug(heap[LOGGER], m))

WriteCalled == \E m \in Messages : LogCalled("write", m, write(heap[LOGGER], m))

FatalCalled == \E m \in Messages : LogCalled("fatal", m, fatal(heap[LOGGER], m))

CloseFileCalled == LogCalled("closeFile", "", closeFile(heap[LOGGER]))

LogNext ==
    \/ InfoCalled
    \/ DebugCalled
    \/ WriteCalled
    \/ FatalCalled
    \/ CloseFileCalled

LogSpec == LogInit /\ [][LogNext]_vars

\* the method called in this step
LogMethod == req'["r1"].arg

\* C39: write(message) hands the message's line to the log file and nothing
\* to the console; debug(message) hands nothing to the console, and a line to
\* the log file only when debug mode is enabled.
C39_WriteAndDebugSkipConsole ==
    [][ LET o == heap[LOGGER]
            n == heap'[LOGGER]
        IN  /\ LogMethod = "write" =>
                  /\ n.console = o.console
                  /\ o.logger # NULL =>
                        n.written = Append(o.written,
                                           logLine("INFO", req'["r1"].data[1]))
            /\ LogMethod = "debug" =>
                  /\ n.console = o.console
                  /\ n.written # o.written => o.debugType ]_vars

====
